---- MODULE Spec2Model ----
(***************************************************************************)
(* ResearchHub: the citation tree builder (CitationService), the entry     *)
(* point that serves it (CitationController.buildTree), the paper store    *)
(* (PaperRepository) and the remote metadata client (SemanticScholarAPI).  *)
(*                                                                         *)
(* One build request is modelled as a set of asynchronous calls of         *)
(* buildCitationTree.  A call is named by its position: <<>> is the root   *)
(* call, Append(c, i) is the call made for the i-th valid candidate of     *)
(* call c.  Every await of the code is a step of the model; the code that  *)
(* runs synchronously between two awaits belongs to one step.              *)
(***************************************************************************)
EXTENDS Integers, Sequences, FiniteSets, TLC

VARIABLES
    store,      \* the papers table: id -> row, or Null when there is no row
    calls,      \* the buildCitationTree calls made so far: position -> call frame
    options,    \* the CitationTreeOptions of the request
    request,    \* the paperId of the request (req.params.paperId)
    response,   \* what buildTree has sent: Null while the request is pending
    rateLimit,  \* SemanticScholarAPI.rateLimit: requests, lastReset, maxRequests, wdMs
    now,        \* Date.now(), in milliseconds
    clients,    \* the calls of the remote client: caller -> call frame
    admitted,   \* the times at which rateLimitCheck let a call through, in order
    table,      \* the rows of the papers table, in the order they were inserted
    writers,    \* the savePaper calls: writer -> call frame
    applied,    \* the writers whose statement the database has executed, in order
    progress,   \* the progress callback's invocations, in order
    batch,      \* the savePapers call: Null, or its call frame
    path,       \* ExplorationProvider's path state
    lastCall,   \* the last call of a path operation: Null, or its name, argument and the path it found
    bulk        \* the bulkImport request: Null, or the handler's frame

\* one build request
buildVars == <<store, calls, options, request, response>>

\* the remote client and its callers
clientVars == <<rateLimit, now, clients, admitted>>

\* the papers table and the savePaper calls
tableVars == <<table, writers, applied>>

\* the progress callback, the batch upsert, the breadcrumbs and the bulk import
sideVars == <<progress, batch, path, lastCall, bulk>>

vars == <<buildVars, clientVars, tableVars, sideVars>>

(***************************************************************************)
(* Bounds of the model.                                                    *)
(***************************************************************************)
MaxDepthBound == 3      \* options.maxDepth ranges over 1..MaxDepthBound
MaxRefsBound == 3       \* options.maxReferencesPerLevel ranges over 1..MaxRefsBound

Null == [null |-> TRUE]

(***************************************************************************)
(* Values of the link lists.  An entry is a string (a paper id, possibly   *)
(* empty or blank) or an object that is not a string.                      *)
(***************************************************************************)
Str(s) == [type |-> "string", value |-> s]
Obj(s) == [type |-> "object", value |-> s]

Range(seq) == {seq[i] : i \in 1..Len(seq)}

Min(a, b) == IF a <= b THEN a ELSE b

Max(a, b) == IF a >= b THEN a ELSE b

\* Array.prototype.slice(0, n) for n >= 0
Slice(seq, n) == SubSeq(seq, 1, Min(n, Len(seq)))

\* String.prototype.trim on the strings of the model: a blank string trims to ""
Trim(s) == IF s \in {"", " "} THEN "" ELSE s

(***************************************************************************)
(* The remote provider.  RawPapers is what GET /paper/{id} answers when it *)
(* answers: a reference or citation whose paperId the provider does not    *)
(* know carries paperId "" (null).  D is a paper the provider does not     *)
(* have: every request for it fails (404).  A request for a known paper    *)
(* may fail as well (rate limit, 5xx, timeout after the retries).          *)
(***************************************************************************)
PaperIds == {"A", "B", "C", "D"}

KnownIds == {"A", "B", "C"}

RawPapers ==
    [id \in KnownIds |->
        CASE id = "A" ->
               [paperId |-> "A", title |-> "tA", abstract |-> "", citationCount |-> 3,
                references |-> <<[paperId |-> "B"]>>,
                citations |-> <<[paperId |-> "B"], [paperId |-> "C"],
                                [paperId |-> ""], [paperId |-> "D"]>>]
          [] id = "B" ->
               [paperId |-> "B", title |-> "tB", abstract |-> "aB", citationCount |-> 1,
                references |-> <<[paperId |-> "A"], [paperId |-> "D"], [paperId |-> "C"]>>,
                citations |-> <<[paperId |-> "A"]>>]
          [] id = "C" ->
               [paperId |-> "C", title |-> "tC", abstract |-> "aC", citationCount |-> 0,
                references |-> <<[paperId |-> "B"]>>,
                citations |-> <<>>]]

\* (ref.paperId || ref) followed by filter(Boolean): a reference without a
\* paperId stays in the list as the object itself
TransformRef(ref) == IF ref.paperId # "" THEN Str(ref.paperId) ELSE Obj(ref.paperId)

TransformRefs(refs) == [i \in 1..Len(refs) |-> TransformRef(refs[i])]

transformPaper(apiPaper) ==
    [id |-> apiPaper.paperId,
     title |-> apiPaper.title,
     abstract |-> apiPaper.abstract,
     citationCount |-> apiPaper.citationCount,
     references |-> TransformRefs(apiPaper.references),
     citations |-> TransformRefs(apiPaper.citations),
     apiSource |-> "semantic_scholar"]

(***************************************************************************)
(* The paper store.  A row keeps the columns the tree builder reads.       *)
(***************************************************************************)
\* the row that savePaper's insert ... on conflict (id) do update writes and returns
SavePaperRow(paper) ==
    [id |-> paper.id,
     title |-> paper.title,
     abstract |-> paper.abstract,
     citation_count |-> paper.citationCount,
     api_source |-> paper.apiSource,
     meta_data |-> [references |-> paper.references, citations |-> paper.citations]]

Upsert(st, row) == [st EXCEPT ![row.id] = row]

FreshRow(id) == SavePaperRow(transformPaper(RawPapers[id]))

\* a row saved from a search result: the search fields carry no link lists
SearchRow(id) ==
    [id |-> id, title |-> "s", abstract |-> "", citation_count |-> 2,
     api_source |-> "semantic_scholar",
     meta_data |-> [references |-> <<>>, citations |-> <<>>]]

\* other rows of the table: the meta_data column holds any JSON object
LegacyRow(id, meta) ==
    [id |-> id, title |-> "old", abstract |-> "", citation_count |-> 5,
     api_source |-> "semantic_scholar", meta_data |-> meta]

EmptyStore == [id \in PaperIds |-> Null]

SearchStore == [id \in PaperIds |-> IF id \in {"A", "B"} THEN SearchRow(id) ELSE Null]

FreshStore == [id \in PaperIds |-> IF id \in KnownIds THEN FreshRow(id) ELSE Null]

LegacyStore ==
    [id \in PaperIds |->
        CASE id = "A" -> LegacyRow("A", [references |-> <<Str(" "), Str("C")>>,
                                         citations |-> <<>>])
          [] id = "B" -> Null
          [] id = "C" -> LegacyRow("C", [references |-> <<>>, citations |-> <<Str("A")>>])
          [] id = "D" -> LegacyRow("D", [venue |-> "v"])]

InitialStores == {EmptyStore, SearchStore, FreshStore, LegacyStore}

(***************************************************************************)
(* Tree nodes and the tree analytics.                                      *)
(***************************************************************************)
countNodesDirect(node) == 1 + Len(node.references)

RECURSIVE countNodes(_)
countNodes(node) ==
    LET RECURSIVE Sum(_)
        Sum(i) == IF i = 0 THEN 0 ELSE Sum(i - 1) + countNodes(node.references[i])
    IN 1 + Sum(Len(node.references))

RECURSIVE FlattenSiblingsReversed(_, _)
FlattenSiblingsReversed(node, parent) ==
    LET entry == [paperId |-> node.paper.id,
                  title |-> node.paper.title,
                  depth |-> node.depth,
                  citationCount |-> node.paper.citation_count]
        n == Len(node.references)
        RECURSIVE Kids(_)
        Kids(i) == IF i = 0 THEN <<>>
                   ELSE Kids(i - 1)
                        \o FlattenSiblingsReversed(node.references[n + 1 - i], <<node.paper.id>>)
    IN <<IF parent = <<>> THEN entry ELSE entry @@ [parentId |-> parent[1]]>> \o Kids(n)

RECURSIVE FlattenChildrenFirst(_, _)
FlattenChildrenFirst(node, parent) ==
    LET entry == [paperId |-> node.paper.id,
                  title |-> node.paper.title,
                  depth |-> node.depth,
                  citationCount |-> node.paper.citation_count]
        RECURSIVE Kids(_)
        Kids(i) == IF i = 0 THEN <<>>
                   ELSE Kids(i - 1) \o FlattenChildrenFirst(node.references[i], <<node.paper.id>>)
    IN Kids(Len(node.references))
       \o <<IF parent = <<>> THEN entry ELSE entry @@ [parentId |-> parent[1]]>>

RECURSIVE FlattenFrom(_, _)
FlattenFrom(node, parent) ==
    LET entry == [paperId |-> node.paper.id,
                  title |-> node.paper.title,
                  depth |-> node.depth,
                  citationCount |-> node.paper.citation_count]
        RECURSIVE Kids(_)
        Kids(i) == IF i = 0 THEN <<>>
                   ELSE Kids(i - 1) \o FlattenFrom(node.references[i], <<node.paper.id>>)
    IN <<IF parent = <<>> THEN entry ELSE entry @@ [parentId |-> parent[1]]>>
       \o Kids(Len(node.references))

\* the root is traversed with parentId undefined: its entry has no parentId
flattenTree(tree) == FlattenFrom(tree, <<>>)

TraverseChildrenOnly(node, depth) ==
    <<[node |-> node, depth |-> depth]>>
    \o [i \in 1..Len(node.references) |-> [node |-> node.references[i], depth |-> depth + 1]]

\* the visits of traverse(node, depth), in the order they are made
RECURSIVE TraverseOrder(_, _)
TraverseOrder(node, depth) ==
    LET RECURSIVE Kids(_)
        Kids(i) == IF i = 0 THEN <<>>
                   ELSE Kids(i - 1) \o TraverseOrder(node.references[i], depth + 1)
    IN <<[node |-> node, depth |-> depth]>> \o Kids(Len(node.references))

\* stats.x += terms[i], over the visits
RECURSIVE Accumulate(_, _)
Accumulate(terms, i) ==
    IF i = 0 THEN 0 ELSE Accumulate(terms, i - 1) + terms[i]

\* averageReferences is the quotient totalReferences / totalNodes, kept as a fraction
getTreeStatistics(tree) ==
    LET visits == TraverseOrder(tree, 0)
        n == Len(visits)
        depths == {0} \cup {visits[i].depth : i \in 1..n}
        totalNodes == Accumulate([i \in 1..n |-> 1], n)
        totalReferences == Accumulate([i \in 1..n |-> Len(visits[i].node.references)], n)
        totalCitations == Accumulate([i \in 1..n |-> visits[i].node.paper.citation_count], n)
    IN [totalNodes |-> totalNodes,
        maxDepth |-> CHOOSE m \in depths : \A d \in depths : d <= m,
        averageReferences |->
            IF totalNodes > 0
            THEN [num |-> totalReferences, den |-> totalNodes]
            ELSE [num |-> 0, den |-> 1],
        totalCitations |-> totalCitations]

(***************************************************************************)
(* buildCitationTree: the call frames.                                     *)
(***************************************************************************)
Parent(c) == SubSeq(c, 1, Len(c) - 1)

Children(cs, c) == {k \in DOMAIN cs : Len(k) = Len(c) + 1 /\ Parent(k) = c}

\* return value: the promise of the call is fulfilled with value
Return(frame, value) ==
    [frame EXCEPT !.pc = "done", !.outcome = "fulfilled", !.result = value]

\* an exception leaves the call: the promise of the call is rejected
Throw(frame) ==
    [frame EXCEPT !.pc = "done", !.outcome = "rejected", !.result = Null]

OuterCatchRethrows(frame) == Throw(frame)

\* catch (error) { console.error(...); return null; }
OuterCatch(frame) == Return(frame, Null)

Logged(frame, event) == [frame EXCEPT !.log = Append(@, event)]

EnterOffByOne(paperId, depth, visited) ==
    depth <= options.maxDepth /\ paperId \notin visited

EnterNoVisitedCheck(paperId, depth, visited) ==
    depth < options.maxDepth

\* the two early returns: the call goes on iff neither applies
Enter(paperId, depth, visited) ==
    ~(depth >= options.maxDepth) /\ ~(paperId \in visited)

\* a call from its invocation to its first await (the store lookup)
NewCall(paperId, depth, visited) ==
    LET frame == [paperId |-> paperId, depth |-> depth,
                  visitedIn |-> visited, visited |-> visited,
                  pc |-> "lookup", mode |-> "none",
                  found |-> Null, paper |-> Null, apiPaper |-> Null,
                  validIds |-> <<>>, order |-> <<>>,
                  outcome |-> "pending", result |-> Null, log |-> <<>>]
    IN IF Enter(paperId, depth, visited)
       THEN [frame EXCEPT !.visited = visited \cup {paperId}]
       ELSE Return(frame, Null)

\* !paper.meta_data?.references || paper.meta_data.references.length === 0
Stale(paper) ==
    \/ "references" \notin DOMAIN paper.meta_data
    \/ Len(paper.meta_data.references) = 0

\* paper.meta_data?.references || [] and paper.meta_data?.citations || []
ListOf(paper, key) == IF key \in DOMAIN paper.meta_data THEN paper.meta_data[key] ELSE <<>>

RelatedAlwaysReferences(paper, depth) == ListOf(paper, "references")

RelatedPapers(paper, depth) ==
    IF depth = 0 THEN ListOf(paper, "citations") ELSE ListOf(paper, "references")

LimitedUncut(related, maxReferencesPerLevel) == related

LimitedRelated(related, maxReferencesPerLevel) == Slice(related, maxReferencesPerLevel)

\* typeof id === 'string' && id.trim()
IsValidId(entry) == entry.type = "string" /\ Trim(entry.value) # ""

ValidIds(limited) ==
    LET kept == SelectSeq(limited, IsValidId)
    IN [i \in 1..Len(kept) |-> kept[i].value]

ChildVisitedShared(visited, validIds, i) == visited \cup {validIds[j] : j \in 1..(i - 1)}

\* new Set(visited): every child gets its own copy of the caller's set
ChildVisited(visited, validIds, i) == visited

\* lines 85-94: the children are called one after the other, each running to its
\* first await, and the caller awaits Promise.all of them
Expand(cs, c, frame) ==
    LET valid == ValidIds(LimitedRelated(RelatedPapers(frame.paper, frame.depth),
                                         options.maxReferencesPerLevel))
        kid(i) == NewCall(valid[i], frame.depth + 1, ChildVisited(frame.visited, valid, i))
        kids == [k \in {Append(c, i) : i \in 1..Len(valid)} |-> kid(k[Len(k)])]
        settled == SelectSeq([i \in 1..Len(valid) |-> i], LAMBDA i : kid(i).pc = "done")
    IN kids @@ [cs EXCEPT ![c] = [frame EXCEPT !.pc = "join", !.validIds = valid,
                                                !.order = settled]]

\* the call at c settles: its caller sees one more settled child
Settle(cs, c, frame) ==
    IF c = <<>>
    THEN [cs EXCEPT ![c] = frame]
    ELSE [cs EXCEPT ![c] = frame, ![Parent(c)].order = Append(@, c[Len(c)])]

(***************************************************************************)
(* The responses of CitationController.buildTree.                          *)
(***************************************************************************)
BadRequestResponse ==
    [status |-> 400, success |-> FALSE, message |-> "paper id is required"]

NotFoundResponse ==
    [status |-> 404, success |-> FALSE,
     message |-> "unable to build citation tree for this paper"]

FailureResponse ==
    [status |-> 500, success |-> FALSE, message |-> "failed to build citation tree",
     error |-> "unknown error"]

SuccessResponse(tree) ==
    [status |-> 200, success |-> TRUE,
     data |-> [tree |-> tree,
               statistics |-> getTreeStatistics(tree),
               flattened |-> flattenTree(tree)]]

NullTreeIsFailure(tree) == IF tree = Null THEN FailureResponse ELSE SuccessResponse(tree)

\* if (!tree) 404, else 200 with the tree, its statistics and its flattening
TreeResponse(tree) == IF tree = Null THEN NotFoundResponse ELSE SuccessResponse(tree)

(***************************************************************************)
(* The steps of a call.                                                    *)
(***************************************************************************)
FetchFailureStartsOver(cs, c, frame) ==
    [cs EXCEPT ![c] = NewCall(frame.paperId, frame.depth, frame.visitedIn)]

FetchFailureDropsStale(cs, c, frame) == Settle(cs, c, Return(frame, Null))

\* the two catch blocks around the remote fetch and the upsert: a refresh goes
\* on with the stored paper (lines 58-61), a first fetch returns null (75-78)
AfterFetchFailure(cs, c, frame) ==
    IF frame.mode = "refresh"
    THEN Expand(cs, c, frame)
    ELSE Settle(cs, c, Return(frame, Null))

RefreshOnlyWhenAbsent(paper) == IF paper = Null THEN "fetch" ELSE "none"

\* which of the two fetch blocks the looked-up paper selects (lines 47 and 64)
FetchMode(paper) ==
    IF paper # Null /\ Stale(paper) THEN "refresh"
    ELSE IF paper = Null THEN "fetch"
    ELSE "none"

\* await paperRepo.getPaperById(paperId), line 44, and the code up to the next await
StoreLookup(c) ==
    /\ c \in DOMAIN calls
    /\ calls[c].pc = "lookup"
    /\ \E ok \in BOOLEAN :
        LET frame == calls[c] IN
        IF ~ok
        THEN calls' = Settle(calls, c, OuterCatch(Logged(frame, "store.err")))
        ELSE LET paper == store[frame.paperId]
                 mode == FetchMode(paper)
                 looked == [Logged(frame, IF paper = Null THEN "store.miss" ELSE "store.hit")
                               EXCEPT !.found = paper, !.paper = paper, !.mode = mode]
             IN calls' = IF mode = "none"
                         THEN Expand(calls, c, looked)
                         ELSE [calls EXCEPT ![c] =
                                  [looked EXCEPT !.pc = IF frame.depth > 0 THEN "delay" ELSE "api"]]
    /\ UNCHANGED <<store, options, request, response, clientVars, tableVars, sideVars>>

DelaySkipped(c) ==
    /\ c \in DOMAIN calls
    /\ calls[c].pc = "delay"
    /\ calls' = [calls EXCEPT ![c].pc = "api"]
    /\ UNCHANGED <<store, options, request, response, clientVars, tableVars, sideVars>>

\* await this.delay(this.RATE_LIMIT_DELAY), lines 48-50 and 65-67
Delay(c) ==
    /\ c \in DOMAIN calls
    /\ calls[c].pc = "delay"
    /\ calls' = [calls EXCEPT ![c] = [Logged(calls[c], "delay") EXCEPT !.pc = "api"]]
    /\ UNCHANGED <<store, options, request, response, clientVars, tableVars, sideVars>>

\* await semanticScholarAPI.getPaperById(paperId), lines 53 and 70
ApiGet(c) ==
    /\ c \in DOMAIN calls
    /\ calls[c].pc = "api"
    /\ \E ok \in BOOLEAN :
        LET frame == calls[c] IN
        IF ok /\ frame.paperId \in KnownIds
        THEN calls' = [calls EXCEPT ![c] =
                          [Logged(frame, "api.ok") EXCEPT
                              !.pc = "save",
                              !.apiPaper = transformPaper(RawPapers[frame.paperId])]]
        ELSE calls' = AfterFetchFailure(calls, c, Logged(frame, "api.fail"))
    /\ UNCHANGED <<store, options, request, response, clientVars, tableVars, sideVars>>

\* paper = await paperRepo.savePaper(apiPaper), lines 55 and 72
SavePaper(c) ==
    /\ c \in DOMAIN calls
    /\ calls[c].pc = "save"
    /\ \E ok \in BOOLEAN :
        LET frame == calls[c]
            row == SavePaperRow(frame.apiPaper)
        IN IF ok
           THEN /\ store' = Upsert(store, row)
                /\ calls' = Expand(calls, c, [Logged(frame, "save.ok") EXCEPT !.paper = row])
           ELSE /\ store' = store
                /\ calls' = AfterFetchFailure(calls, c, Logged(frame, "save.fail"))
    /\ UNCHANGED <<options, request, response, clientVars, tableVars, sideVars>>

ChildResultsInCompletionOrder(cs, c) ==
    [i \in 1..Len(cs[c].order) |-> cs[Append(c, cs[c].order[i])].result]

\* await Promise.all(childPromises): the results in the order of the promises
ChildResults(cs, c) ==
    [i \in 1..Len(cs[c].validIds) |-> cs[Append(c, i)].result]

\* lines 95-108
BuildNode(frame, childResults) ==
    LET referencesTrees == SelectSeq(childResults, LAMBDA r : r # Null)
        node == [paper |-> frame.paper, references |-> referencesTrees, depth |-> frame.depth]
    IN IF options.includeMetrics
       THEN node @@ [totalNodes |-> countNodes(node)]
       ELSE node

\* Promise.all settles: rejected with the first rejection, fulfilled when all are
Join(c) ==
    /\ c \in DOMAIN calls
    /\ calls[c].pc = "join"
    /\ LET kids == {Append(c, i) : i \in 1..Len(calls[c].validIds)}
       IN \/ /\ \E k \in kids : calls[k].outcome = "rejected"
             /\ calls' = Settle(calls, c, OuterCatch(calls[c]))
          \/ /\ \A k \in kids : calls[k].outcome = "fulfilled"
             /\ calls' = Settle(calls, c,
                                Return(calls[c], BuildNode(calls[c], ChildResults(calls, c))))
    /\ UNCHANGED <<store, options, request, response, clientVars, tableVars, sideVars>>

(***************************************************************************)
(* CitationController.buildTree                                            *)
(***************************************************************************)
\* lines 13-37: the request is validated and the root call is made
BuildTree ==
    /\ response = Null
    /\ calls = <<>>
    /\ IF request = ""
       THEN /\ response' = BadRequestResponse
            /\ calls' = calls
       ELSE /\ response' = response
            /\ calls' = (<<>> :> NewCall(request, 0, {}))
    /\ UNCHANGED <<store, options, request, clientVars, tableVars, sideVars>>

\* lines 37-66: the root call has settled and the response is sent
Respond ==
    /\ response = Null
    /\ <<>> \in DOMAIN calls
    /\ calls[<<>>].pc = "done"
    /\ response' = IF calls[<<>>].outcome = "rejected"
                   THEN FailureResponse
                   ELSE TreeResponse(calls[<<>>].result)
    /\ UNCHANGED <<store, calls, options, request, clientVars, tableVars, sideVars>>

(***************************************************************************)
(* The remote metadata client (SemanticScholarAPI).  A caller invokes      *)
(* getPaperById or searchPapers; the call passes rateLimitCheck, then      *)
(* sends its requests through withRetry.  Time is the value of now: a      *)
(* timer set for a delay fires at any time from its due time on.           *)
(***************************************************************************)
MaxCallersBound == 2    \* the concurrent callers of the client in LimiterSpec
MaxRequestsBound == 2   \* rateLimit.maxRequests ranges over 1..MaxRequestsBound, and 100
MaxPausesBound == 1     \* the pauses longer than a window that time may make

maxRequests == 100

wdMs == 5 * 60 * 1000

attempts == 3

\* a JavaScript number: Number(n) for the integer n, or NaN
Number(n) == [num |-> n]

NaN == [nan |-> TRUE]

undefined == [undefined |-> TRUE]

HttpDate == "Wed, 21 Oct 2026 07:28:00 GMT"

\* the Retry-After headers of the model: absent (""), delay-seconds, an HTTP-date
RetryAfterHeaders == {"", "2", HttpDate}

\* parseInt(header, 10): the leading decimal integer of the string, or NaN
parseInt(header) ==
    CASE header = "2" -> Number(2)
      [] OTHER -> NaN

\* n * 1000, which is NaN when n is NaN
TimesThousand(n) == IF n = NaN THEN NaN ELSE Number(n.num * 1000)

\* what axios.get settles with: a 2xx response, or an AxiosError with the status
\* and the retry-after header of its response (status 0: there is no response)
\* and its code
OkResponse == [ok |-> TRUE]

AxiosFailure(status, header, code) ==
    [ok |-> FALSE, status |-> status, retryAfter |-> header, code |-> code]

Failures ==
    {AxiosFailure(429, h, "ERR_BAD_REQUEST") : h \in RetryAfterHeaders}
    \cup {AxiosFailure(503, "2", "ERR_BAD_RESPONSE"),
          AxiosFailure(500, "", "ERR_BAD_RESPONSE"),
          AxiosFailure(404, "", "ERR_BAD_REQUEST"),
          AxiosFailure(0, "", "ECONNRESET"),
          AxiosFailure(0, "", "ETIMEDOUT"),
          AxiosFailure(0, "", "ECONNABORTED"),
          AxiosFailure(0, "", "ERR_NETWORK")}

Responses == {OkResponse} \cup Failures

\* a provider that answers every request
SteadyResponses == {OkResponse}

\* line 63
retryAfterMs(error) ==
    IF error.retryAfter # "" THEN TimesThousand(parseInt(error.retryAfter)) ELSE undefined

ShouldRetryOnlyRateLimit(error) == error.status = 429

\* lines 66-67
shouldRetry(error) ==
    \/ error.status = 429
    \/ (error.status # 0 /\ error.status >= 500)
    \/ error.code = "ECONNRESET"
    \/ error.code = "ETIMEDOUT"
    \/ error.code = "ECONNABORTED"

\* line 72: retryAfterMs ?? Math.min(4000, 1000 * Math.pow(2, i))
backoff(error, i) ==
    IF retryAfterMs(error) # undefined
    THEN retryAfterMs(error)
    ELSE Number(Min(4000, 1000 * (2 ^ i)))

\* setTimeout(f, ms): a delay that is NaN or below 1 is taken as 1
TimerDelay(ms) == IF ms = NaN THEN 1 ELSE IF ms.num < 1 THEN 1 ELSE ms.num

\* lines 83-86
RollWindow(rl, t) ==
    IF t - rl.lastReset > rl.wdMs
    THEN [rl EXCEPT !.requests = 0, !.lastReset = t]
    ELSE rl

\* line 88
Exhausted(rl) == rl.requests >= rl.maxRequests

\* line 89
WaitOf(rl, t) == Number(rl.wdMs - (t - rl.lastReset))

AfterWaitKeepsCount(rl, t) == [rl EXCEPT !.lastReset = t]

\* lines 93-94
AfterWait(rl, t) == [rl EXCEPT !.requests = 0, !.lastReset = t]

\* line 96
Admit(rl) == [rl EXCEPT !.requests = @ + 1]

\* lines 245-250
getRateLimitStatus(rl) ==
    [remaining |-> Max(0, rl.maxRequests - rl.requests),
     resetTime |-> rl.lastReset + rl.wdMs]

\* query parameters of a search (lines 130-135) and the fields of a paper request
SearchParamsSet == {[query |-> "q", limit |-> 0, offset |-> 0],
                    [query |-> "q", limit |-> 5, offset |-> 20]}

queryParams(params) ==
    [query |-> params.query,
     limit |-> IF params.limit # 0 THEN params.limit ELSE 10,
     offset |-> params.offset]

Endpoint(op) == IF op = "getPaperById" THEN "paper" ELSE "search"

ErrorMessage(op) ==
    IF op = "getPaperById"
    THEN "Failed to fetch paper from Semantic Scholar API"
    ELSE "Failed to fetch papers from Semantic Scholar API"

\* a call that has not been made yet
IdleCall(op, params) ==
    [op |-> op, params |-> params, pc |-> "idle",
     endpoint |-> "none", i |-> 0, due |-> 0,
     windowStart |-> 0, limitedAt |-> -1, admittedAt |-> -1,
     tries |-> <<>>, ended |-> <<>>, sent |-> <<>>,
     outcome |-> "pending", error |-> ""]

\* request(): axios.get is called and awaited
SendRequest(frame, t) ==
    [frame EXCEPT !.pc = "request",
                  !.tries = Append(@, [at |-> t, response |-> undefined, answeredAt |-> 0]),
                  !.sent = Append(@, [endpoint |-> frame.endpoint,
                                      params |-> IF frame.op = "searchPapers"
                                                 THEN queryParams(frame.params)
                                                 ELSE frame.params])]

\* withRetry(request) is called: the loop starts with i = 0
StartWithRetry(frame, endpoint, t) ==
    SendRequest([frame EXCEPT !.endpoint = endpoint, !.i = 0, !.tries = <<>>], t)

\* the withRetry call of the frame ends: returned or thrown
EndWithRetry(frame, result) ==
    [frame EXCEPT !.ended = Append(@, [endpoint |-> frame.endpoint,
                                       result |-> result,
                                       requests |-> Len(frame.tries)])]

\* the call returns its result
Fulfil(frame) == [frame EXCEPT !.pc = "done", !.outcome = "fulfilled"]

\* the outer catch: throw new Error("Failed to fetch ...")
Reject(frame) ==
    [frame EXCEPT !.pc = "done", !.outcome = "rejected", !.error = ErrorMessage(frame.op)]

WithRetryThrowsToCaller(frame, t) == Reject(EndWithRetry(frame, "thrown"))

\* withRetry throws lastError: the catch of lines 159-170 starts the bulk search
\* when the failed call was the primary search; any other throw reaches the outer catch
WithRetryThrows(frame, t) ==
    IF frame.op = "searchPapers" /\ frame.endpoint = "search"
    THEN StartWithRetry(EndWithRetry(frame, "thrown"), "bulk", t)
    ELSE Reject(EndWithRetry(frame, "thrown"))

\* line 68, negated: the loop goes on to the timer and the next attempt
RetryAgain(frame, error) == shouldRetry(error) /\ ~(frame.i = attempts - 1)

\* the response of the request in flight is recorded
Answered(frame, settled, t) ==
    [frame EXCEPT !.tries[Len(frame.tries)].response = settled,
                  !.tries[Len(frame.tries)].answeredAt = t]

WaitNothing(rl, t) == Number(0)

\* the timer of line 91 is set for the wait computed at line 89
LimiterWait(rl, t) == WaitOf(rl, t)

(***************************************************************************)
(* The steps of a client call.                                             *)
(***************************************************************************)
\* the caller invokes the operation: rateLimitCheck runs to its await (line 91)
\* or to its end, and then the first request is sent
Invoke(k) ==
    /\ k \in DOMAIN clients
    /\ clients[k].pc = "idle"
    /\ LET frame == clients[k]
           rl == RollWindow(rateLimit, now)
       IN IF Exhausted(rl)
          THEN /\ rateLimit' = rl
               /\ admitted' = admitted
               /\ clients' = [clients EXCEPT ![k] =
                      [frame EXCEPT !.pc = "limited",
                                    !.windowStart = rl.lastReset,
                                    !.limitedAt = now,
                                    !.due = now + TimerDelay(LimiterWait(rl, now))]]
          ELSE /\ rateLimit' = Admit(rl)
               /\ admitted' = Append(admitted, now)
               /\ clients' = [clients EXCEPT ![k] =
                      StartWithRetry([frame EXCEPT !.admittedAt = now],
                                     Endpoint(frame.op), now)]
    /\ UNCHANGED <<now, buildVars, tableVars, sideVars>>

\* the timer of line 91 fires: lines 93-96, and then the first request is sent
Wake(k) ==
    /\ k \in DOMAIN clients
    /\ clients[k].pc = "limited"
    /\ now >= clients[k].due
    /\ rateLimit' = Admit(AfterWait(rateLimit, now))
    /\ admitted' = Append(admitted, now)
    /\ clients' = [clients EXCEPT ![k] =
           StartWithRetry([clients[k] EXCEPT !.admittedAt = now],
                          Endpoint(clients[k].op), now)]
    /\ UNCHANGED <<now, buildVars, tableVars, sideVars>>

\* the request in flight settles with one of responses: lines 57-74 of withRetry
\* and the code of the caller that follows its return or its throw
Answer(k, responses) ==
    /\ k \in DOMAIN clients
    /\ clients[k].pc = "request"
    /\ \E settled \in responses :
          LET frame == Answered(clients[k], settled, now)
          IN clients' = [clients EXCEPT ![k] =
                 IF settled.ok
                 THEN Fulfil(EndWithRetry(frame, "returned"))
                 ELSE IF RetryAgain(frame, settled)
                 THEN [frame EXCEPT !.pc = "backoff",
                                    !.due = now + TimerDelay(backoff(settled, frame.i))]
                 ELSE WithRetryThrows(frame, now)]
    /\ UNCHANGED <<rateLimit, now, admitted, buildVars, tableVars, sideVars>>

\* the timer of line 74 fires: the loop goes to its next iteration
Retry(k) ==
    /\ k \in DOMAIN clients
    /\ clients[k].pc = "backoff"
    /\ now >= clients[k].due
    /\ clients' = [clients EXCEPT ![k] =
           SendRequest([clients[k] EXCEPT !.i = @ + 1], now)]
    /\ UNCHANGED <<rateLimit, now, admitted, buildVars, tableVars, sideVars>>

\* the due times of the timers that have not fired
PendingDues == {clients[k].due : k \in {j \in DOMAIN clients :
                                          clients[j].pc \in {"limited", "backoff"}}}

\* time passes: up to the due time of a pending timer, or for longer than a window
Tick ==
    /\ \E t \in {d \in PendingDues : d > now}
              \cup {p \in {now + wdMs + 1} : now < MaxPausesBound * (wdMs + 1)} :
          now' = t
    /\ UNCHANGED <<rateLimit, clients, admitted, buildVars, tableVars, sideVars>>

\* the client as constructed, and when it has been in use: the counter has any
\* value the limiter lets it have
RateLimits ==
    {[requests |-> IF used THEN m ELSE 0, lastReset |-> 0, maxRequests |-> m, wdMs |-> wdMs] :
        used \in BOOLEAN, m \in (1..MaxRequestsBound) \cup {maxRequests}}

\* the admissions that a counter value stands for, made when the window was opened
AdmittedBefore(rl) == [n \in 1..rl.requests |-> rl.lastReset]

NoClients ==
    /\ rateLimit = [requests |-> 0, lastReset |-> 0, maxRequests |-> maxRequests, wdMs |-> wdMs]
    /\ now = 0
    /\ clients = <<>>
    /\ admitted = <<>>

NoBuild ==
    /\ store = EmptyStore
    /\ calls = <<>>
    /\ options = [maxDepth |-> 1, maxReferencesPerLevel |-> 1, includeMetrics |-> FALSE]
    /\ request = ""
    /\ response = Null

(***************************************************************************)
(* The papers table (id is its primary key) and PaperRepository.savePaper. *)
(* The store of a build is the table as select * from papers where id = $1 *)
(* sees it.                                                                *)
(***************************************************************************)
MaxWritersBound == 3    \* the savePaper calls of StoreSpec

\* the papers the writers save: writer w saves its own version of a paper
Titles == [w \in 1..(MaxWritersBound + 1) |-> <<"t1", "t2", "t3", "t4", "t5", "t6">>[w]]

PaperVersion(id, w) ==
    [transformPaper(RawPapers[id]) EXCEPT
        !.title = Titles[w],
        !.abstract = IF w = 1 THEN "" ELSE Titles[w],
        !.citationCount = 10 + w,
        !.references = IF w = 2 THEN <<>> ELSE @]

\* insert into papers (...) values (...): created_at takes its default, now()
InsertedRow(values, stamp) == values @@ [created_at |-> stamp]

DoUpdateSetKeepsTitle(row, excluded, stamp) ==
    [row EXCEPT !.abstract = excluded.abstract,
                !.citation_count = excluded.citation_count,
                !.api_source = excluded.api_source,
                !.meta_data = excluded.meta_data,
                !.created_at = stamp]

\* do update set title = excluded.title, ..., created_at = now()
DoUpdateSet(row, excluded, stamp) ==
    [row EXCEPT !.title = excluded.title,
                !.abstract = excluded.abstract,
                !.citation_count = excluded.citation_count,
                !.api_source = excluded.api_source,
                !.meta_data = excluded.meta_data,
                !.created_at = stamp]

\* insert ... on conflict (id) do update set ...
UpsertRows(rows, values, stamp) ==
    IF \E i \in 1..Len(rows) : rows[i].id = values.id
    THEN [i \in 1..Len(rows) |->
             IF rows[i].id = values.id THEN DoUpdateSet(rows[i], values, stamp) ELSE rows[i]]
    ELSE Append(rows, InsertedRow(values, stamp))

\* the tables the writers start with: empty, or with a row for A
InitialTables == {<<>>, <<InsertedRow(SearchRow("A"), 0)>>}

IdleWriter(paper) == [paper |-> paper, pc |-> "idle", returned |-> Null, outcome |-> "pending"]

\* savePaper is called: the statement is sent and awaited (line 62)
SavePaperCall(w) ==
    /\ w \in DOMAIN writers
    /\ writers[w].pc = "idle"
    /\ writers' = [writers EXCEPT ![w].pc = "query"]
    /\ UNCHANGED <<table, applied, buildVars, clientVars, sideVars>>

\* the database executes the statement of w and savePaper returns the row it
\* returns, or the statement fails and savePaper throws (lines 84-87)
ExecuteUpsert(w) ==
    /\ w \in DOMAIN writers
    /\ writers[w].pc = "query"
    /\ \E ok \in BOOLEAN :
          IF ok
          THEN LET stamp == Len(applied) + 1
                   rows == UpsertRows(table, SavePaperRow(writers[w].paper), stamp)
               IN /\ table' = rows
                  /\ applied' = Append(applied, w)
                  /\ writers' = [writers EXCEPT ![w] =
                         [@ EXCEPT !.pc = "done", !.outcome = "fulfilled",
                                   !.returned = CHOOSE r \in Range(rows) :
                                                    r.id = writers[w].paper.id]]
          ELSE /\ table' = table
               /\ applied' = applied
               /\ writers' = [writers EXCEPT ![w] =
                         [@ EXCEPT !.pc = "done", !.outcome = "rejected"]]
    /\ UNCHANGED <<buildVars, clientVars, sideVars>>

NoWriters ==
    /\ table = <<>>
    /\ writers = <<>>
    /\ applied = <<>>

NoProgress == progress = <<>>

NoBatch == batch = Null

NoPath == path = <<>> /\ lastCall = Null

NoBulk == bulk = Null

NoSides == NoProgress /\ NoBatch /\ NoPath /\ NoBulk

(***************************************************************************)
(* PaperRepository.savePapers and DatabaseService.transaction.  The        *)
(* statements of a transaction work on the rows the transaction sees       *)
(* (rows); the table other sessions read changes when COMMIT is executed.  *)
(* now() is the start time of the transaction for all its statements.      *)
(***************************************************************************)
MaxBatchBound == 2      \* the papers of one savePapers call

\* params of lines 110-125, bound to $1..$9 of the insert in this order: the
\* second parameter is the title column, the third the abstract column
SavePapersRow(paper) ==
    [id |-> paper.id,
     title |-> paper.abstract,
     abstract |-> paper.title,
     citation_count |-> paper.citationCount,
     api_source |-> paper.apiSource,
     meta_data |-> [references |-> paper.references, citations |-> paper.citations]]

\* the upserts of a list of rows, one after the other
RECURSIVE UpsertAll(_, _, _)
UpsertAll(rows, values, stamp) ==
    IF values = <<>>
    THEN rows
    ELSE UpsertAll(UpsertRows(rows, Head(values), stamp), Tail(values), stamp)

\* the lists of papers savePapers is called with
PaperLists ==
    UNION {{[i \in 1..n |-> transformPaper(RawPapers[ids[i]])] : ids \in [1..n -> KnownIds]} :
              n \in 0..MaxBatchBound}

BatchStamp == 1

IdleBatch(papers, rows) ==
    [papers |-> papers, pc |-> "idle", i |-> 1, before |-> rows, rows |-> rows,
     resQueries |-> <<>>, outcome |-> "pending", returned |-> Null]

\* savePapers' catch (lines 133-136): throw new Error("Faild to save papers")
SavePapersThrows(frame) == [frame EXCEPT !.pc = "done", !.outcome = "rejected"]

\* lines 128-131: one result row for each query
SavePapersReturns(frame) ==
    [frame EXCEPT !.pc = "done", !.outcome = "fulfilled", !.returned = frame.resQueries]

CatchCommits(frame) == [frame EXCEPT !.pc = "commit"]

\* transaction's catch (line 97): the next statement is ROLLBACK
CatchRollsBack(frame) == [frame EXCEPT !.pc = "rollback"]

\* the statement after the one that succeeded: the next query, or COMMIT
NextStatement(frame) ==
    IF frame.i <= Len(frame.papers)
    THEN [frame EXCEPT !.pc = "query"]
    ELSE [frame EXCEPT !.pc = "commit"]

\* lines 90-128 and 75-81: the queries are built and a client is awaited
SavePapersCall ==
    /\ batch # Null
    /\ batch.pc = "idle"
    /\ batch' = [batch EXCEPT !.pc = "connect"]
    /\ UNCHANGED <<progress, path, lastCall, bulk, buildVars, clientVars, tableVars>>

\* await this.pool.connect() (line 81) and await client.query('BEGIN'): a
\* failed connect throws before the try block, a failed BEGIN inside it
Begin ==
    /\ batch # Null
    /\ batch.pc = "connect"
    /\ \E outcome \in {"ok", "no client", "begin fails"} :
          batch' = CASE outcome = "ok" -> NextStatement([batch EXCEPT !.rows = table,
                                                                      !.before = table])
                     [] outcome = "no client" -> SavePapersThrows(batch)
                     [] outcome = "begin fails" -> CatchRollsBack(batch)
    /\ UNCHANGED <<progress, path, lastCall, bulk, buildVars, clientVars, tableVars>>

\* await client.query(text, params) for queries[i] (lines 87-92)
ExecuteQuery ==
    /\ batch # Null
    /\ batch.pc = "query"
    /\ \E ok \in BOOLEAN :
          IF ok
          THEN LET values == SavePapersRow(batch.papers[batch.i])
                   rows == UpsertRows(batch.rows, values, BatchStamp)
                   row == CHOOSE r \in Range(rows) : r.id = values.id
               IN batch' = NextStatement([batch EXCEPT !.rows = rows, !.i = @ + 1,
                                                       !.resQueries = Append(@, row)])
          ELSE batch' = CatchRollsBack(batch)
    /\ UNCHANGED <<progress, path, lastCall, bulk, buildVars, clientVars, tableVars>>

\* await client.query('COMMIT') (line 93): the rows of the transaction become
\* the table, and savePapers returns the rows of the results
Commit ==
    /\ batch # Null
    /\ batch.pc = "commit"
    /\ \E ok \in BOOLEAN :
          IF ok
          THEN /\ table' = batch.rows
               /\ batch' = SavePapersReturns(batch)
          ELSE /\ table' = table
               /\ batch' = CatchRollsBack(batch)
    /\ UNCHANGED <<writers, applied, progress, path, lastCall, bulk, buildVars, clientVars>>

\* await client.query('ROLLBACK') (line 98), throw ex, and savePapers' catch
Rollback ==
    /\ batch # Null
    /\ batch.pc = "rollback"
    /\ batch' = SavePapersThrows([batch EXCEPT !.rows = table])
    /\ UNCHANGED <<progress, path, lastCall, bulk, buildVars, clientVars, tableVars>>

(***************************************************************************)
(* CitationService.buildCitationTreeWithProgress and the entry point that  *)
(* serves it, CitationController.buildTreeWithProgress.                    *)
(***************************************************************************)
DEFAULT_MAX_DEPTH == 5

DEFAULT_MAX_REFS == 5

\* Math.pow(base, exponent) on the naturals
RECURSIVE Pow(_, _)
Pow(base, exponent) == IF exponent = 0 THEN 1 ELSE base * Pow(base, exponent - 1)

\* progressTracker.estimate: for (d = 0; d <= maxDepth; d++) total += Math.pow(maxRefs, d)
RECURSIVE estimate(_, _, _)
estimate(depth, maxRefs, maxDepth) ==
    IF depth > maxDepth
    THEN 0
    ELSE Pow(maxRefs, depth) + estimate(depth + 1, maxRefs, maxDepth)

\* value || fallback on numbers
OrDefault(value, fallback) == IF value = 0 THEN fallback ELSE value

\* lines 133-135
ProgressTotal ==
    estimate(0, OrDefault(options.maxReferencesPerLevel, DEFAULT_MAX_REFS),
                OrDefault(options.maxDepth, DEFAULT_MAX_DEPTH))

\* buildWithProgress (lines 137-153) up to its call of buildCitationTree
OnProgress(reports, paperId) ==
    Append(reports, [processed |-> Len(reports) + 1,
                     total |-> ProgressTotal,
                     currentPaper |-> paperId])

FailureWithProgressResponse ==
    [status |-> 500, success |-> FALSE,
     message |-> "failed to build citation tree with progress",
     error |-> "unknown error"]

\* buildTreeWithProgress, lines 70-102, and buildCitationTreeWithProgress: the
\* request is validated, buildWithProgress reports the root and calls
\* this.buildCitationTree(paperId, options, 0, new Set()), whose recursive
\* calls are calls of buildCitationTree itself
BuildTreeWithProgress ==
    /\ response = Null
    /\ calls = <<>>
    /\ IF request = ""
       THEN /\ response' = BadRequestResponse
            /\ calls' = calls
            /\ progress' = progress
       ELSE /\ response' = response
            /\ progress' = OnProgress(progress, request)
            /\ calls' = (<<>> :> NewCall(request, 0, {}))
    /\ UNCHANGED <<store, options, request, batch, path, lastCall, bulk, clientVars, tableVars>>

\* lines 102-131: the root call has settled and the response is sent
RespondWithProgress ==
    /\ response = Null
    /\ <<>> \in DOMAIN calls
    /\ calls[<<>>].pc = "done"
    /\ response' = IF calls[<<>>].outcome = "rejected"
                   THEN FailureWithProgressResponse
                   ELSE TreeResponse(calls[<<>>].result)
    /\ UNCHANGED <<store, calls, options, request, clientVars, tableVars, sideVars>>

(***************************************************************************)
(* The exploration path of the frontend (ExplorationProvider).  Every      *)
(* operation hands React an updater, which React applies to the current    *)
(* path; an item is a record whose authors field may be absent.            *)
(***************************************************************************)
MaxPapersBound == 3     \* the papers the user can open

PathPaperIds == {<<"A", "B", "C", "D">>[n] : n \in 1..MaxPapersBound}

\* the items addToPath is called with: paperToPathItem gives a paper its title,
\* authors and the way it was reached; authors is optional in the item type
PathItems ==
    UNION {{[paperId |-> id, title |-> "t1", authors |-> "a1", explorationType |-> "search"],
            [paperId |-> id, title |-> "t3", explorationType |-> "reference"]} :
              id \in PathPaperIds}

\* current.findIndex(pathItem => pathItem.paperId === item.paperId), counted
\* from 1; 0 stands for the -1 of findIndex
findIndex(current, paperId) ==
    IF \E i \in 1..Len(current) : current[i].paperId = paperId
    THEN CHOOSE i \in 1..Len(current) :
             /\ current[i].paperId = paperId
             /\ \A j \in 1..(i - 1) : current[j].paperId # paperId
    ELSE 0

\* Array.prototype.slice(0, end) for any integer end
sliceTo(current, end) ==
    SubSeq(current, 1, IF end < 0 THEN Max(Len(current) + end, 0) ELSE Min(end, Len(current)))

\* { ...old, ...item }: the fields of item, and the fields of old that item lacks
Spread(old, item) == item @@ old

AddToPathAppends(current, item) == Append(current, item)

\* the updater of addToPath (lines 63-72)
AddToPathUpdater(current, item) ==
    LET existingIndex == findIndex(current, item.paperId)
    IN IF existingIndex # 0
       THEN LET updated == sliceTo(current, existingIndex)
            IN [updated EXCEPT ![existingIndex] = Spread(updated[existingIndex], item)]
       ELSE Append(current, item)

\* the updater of removeFromPath (line 76)
RemoveFromPathUpdater(current, index) == sliceTo(current, index)

\* the updater of navigateToPathIndex (line 84)
NavigateUpdater(current, index) == sliceTo(current, index + 1)

\* the indexes the operations are called with: those of the items, the one
\* before them and the one after them
PathIndexes == -1..Len(path)

Called(op, arg) == [op |-> op, arg |-> arg, found |-> path]

addToPath(item) ==
    /\ path' = AddToPathUpdater(path, item)
    /\ lastCall' = Called("addToPath", item)
    /\ UNCHANGED <<progress, batch, bulk, buildVars, clientVars, tableVars>>

removeFromPath(index) ==
    /\ path' = RemoveFromPathUpdater(path, index)
    /\ lastCall' = Called("removeFromPath", index)
    /\ UNCHANGED <<progress, batch, bulk, buildVars, clientVars, tableVars>>

clearPath ==
    /\ path' = <<>>
    /\ lastCall' = Called("clearPath", Null)
    /\ UNCHANGED <<progress, batch, bulk, buildVars, clientVars, tableVars>>

navigateToPathIndex(index) ==
    /\ path' = NavigateUpdater(path, index)
    /\ lastCall' = Called("navigateToPathIndex", index)
    /\ UNCHANGED <<progress, batch, bulk, buildVars, clientVars, tableVars>>

(***************************************************************************)
(* PaperController.bulkImport.  req.body.queries is any JSON value; res is *)
(* the Express response, on which a json() call after the response has     *)
(* been sent throws (ERR_HTTP_HEADERS_SENT).                               *)
(***************************************************************************)
MaxQueriesBound == 3    \* the entries of queries, and the characters of a string

JsUndefined == [type |-> "undefined"]

JsString(chars) == [type |-> "string", value |-> chars]

JsObject == [type |-> "object"]

JsArray(entries) == [type |-> "array", value |-> entries]

\* the values of req.body.queries
QueriesValues ==
    {JsUndefined, JsObject}
    \cup {JsString([i \in 1..n |-> <<"a", "b", "c", "d">>[i]]) : n \in 0..MaxQueriesBound}
    \cup {JsArray([i \in 1..n |-> <<"q1", "q2", "q3", "q4">>[i]]) : n \in 0..MaxQueriesBound}

\* !queries: undefined and the empty string are falsy
Falsy(value) == value.type = "undefined" \/ (value.type = "string" /\ value.value = <<>>)

\* Array.isArray(queries)
IsArray(value) == value.type = "array"

\* line 251
QueriesRejected(queries) ==
    Falsy(queries) \/ ~IsArray(queries) \/ Len(queries.value) = 0

\* for (const query of queries): arrays and strings are iterable, a string by
\* its characters; anything else throws a TypeError
Iterable(value) == value.type \in {"array", "string"}

BulkBadRequest == [status |-> 400, success |-> FALSE, message |-> "queries are required"]

BulkSuccess(totalImported, results) ==
    [status |-> 200, success |-> TRUE,
     data |-> [totalImported |-> totalImported, results |-> results]]

BulkFailure ==
    [status |-> 500, success |-> FALSE, message |-> "bulk import failed",
     error |-> "unkown error"]

\* what searchPapers answers with: no paper, or a paper
SearchResults == {<<>>, <<transformPaper(RawPapers["B"])>>}

IdleBulk(queries) ==
    [queries |-> queries, pc |-> "idle", k |-> 1, papers |-> <<>>,
     totalImported |-> 0, results |-> <<>>, searched |-> <<>>,
     sent |-> <<>>, jsonCalls |-> 0, outcome |-> "pending"]

\* res.status(...).json(...) on a response that has not been sent
Json(frame, body) ==
    [frame EXCEPT !.sent = Append(@, body), !.jsonCalls = @ + 1]

\* res.headersSent
HeadersSent(frame) == frame.sent # <<>>

\* the handler's promise settles
BulkEnds(frame, outcome) == [frame EXCEPT !.pc = "done", !.outcome = outcome]

\* the outer catch (lines 303-310): its json() throws when the response is sent
BulkOuterCatch(frame) ==
    IF HeadersSent(frame)
    THEN BulkEnds([frame EXCEPT !.jsonCalls = @ + 1], "rejected")
    ELSE BulkEnds(Json(frame, BulkFailure), "fulfilled")

\* lines 295-301, after the loop
AfterLoop(frame) ==
    IF HeadersSent(frame)
    THEN BulkOuterCatch([frame EXCEPT !.jsonCalls = @ + 1])
    ELSE BulkEnds(Json(frame, BulkSuccess(frame.totalImported, frame.results)), "fulfilled")

\* the loop takes its entry k, or ends: lines 263-266
LoopFrom(frame, k) ==
    IF k <= Len(frame.queries.value)
    THEN [frame EXCEPT !.pc = "search", !.k = k,
                       !.searched = Append(@, frame.queries.value[k])]
    ELSE AfterLoop([frame EXCEPT !.k = k])

\* lines 251-256: the 400 response is sent, and the handler goes on
Validated(frame) ==
    IF QueriesRejected(frame.queries)
    THEN Json(frame, BulkBadRequest)
    ELSE frame

\* the inner catch (lines 285-292) and the next entry
InnerCatch(frame) ==
    LoopFrom([frame EXCEPT !.results = Append(@, [query |-> frame.queries.value[frame.k],
                                                   imported |-> 0,
                                                   error |-> "unkown error"])],
             frame.k + 1)

\* the handler from its call to its first await, lines 249-266
BulkImportCall ==
    /\ bulk # Null
    /\ bulk.pc = "idle"
    /\ LET frame == Validated(bulk)
       IN bulk' = IF Iterable(frame.queries)
                  THEN LoopFrom(frame, 1)
                  ELSE BulkOuterCatch(frame)
    /\ UNCHANGED <<progress, batch, path, lastCall, buildVars, clientVars, tableVars>>

\* await semanticScholarAPI.searchPapers(...) settles (lines 266-271)
BulkSearched ==
    /\ bulk # Null
    /\ bulk.pc = "search"
    /\ \/ \E papers \in SearchResults :
             bulk' = [bulk EXCEPT !.papers = papers,
                                  !.pc = IF Len(papers) > 0 THEN "save" ELSE "delay"]
       \/ bulk' = InnerCatch(bulk)
    /\ UNCHANGED <<progress, batch, path, lastCall, buildVars, clientVars, tableVars>>

\* await paperRepo.savePapers(apiRes.papers) settles (lines 272-280)
BulkSaved ==
    /\ bulk # Null
    /\ bulk.pc = "save"
    /\ \/ /\ table' = UpsertAll(table,
                                [i \in 1..Len(bulk.papers) |-> SavePapersRow(bulk.papers[i])],
                                BatchStamp)
          /\ bulk' = [bulk EXCEPT
                 !.pc = "delay",
                 !.totalImported = @ + Len(bulk.papers),
                 !.results = Append(@, [query |-> bulk.queries.value[bulk.k],
                                        imported |-> Len(bulk.papers)])]
       \/ /\ table' = table
          /\ bulk' = InnerCatch(bulk)
    /\ UNCHANGED <<writers, applied, progress, batch, path, lastCall, buildVars, clientVars>>

\* the timer of line 283 fires: the next entry, or the code after the loop
BulkDelayed ==
    /\ bulk # Null
    /\ bulk.pc = "delay"
    /\ bulk' = LoopFrom(bulk, bulk.k + 1)
    /\ UNCHANGED <<progress, batch, path, lastCall, buildVars, clientVars, tableVars>>

(***************************************************************************)
(* The specifications.                                                     *)
(***************************************************************************)
Positions == DOMAIN calls

Init ==
    /\ store \in InitialStores
    /\ calls = <<>>
    /\ options \in [maxDepth : 1..MaxDepthBound,
                    maxReferencesPerLevel : 1..MaxRefsBound,
                    includeMetrics : BOOLEAN]
    /\ request \in PaperIds \cup {""}
    /\ response = Null
    /\ NoClients
    /\ NoWriters
    /\ NoSides

Next ==
    \/ BuildTree
    \/ \E c \in Positions : StoreLookup(c)
    \/ \E c \in Positions : Delay(c)
    \/ \E c \in Positions : ApiGet(c)
    \/ \E c \in Positions : SavePaper(c)
    \/ \E c \in Positions : Join(c)
    \/ Respond

Spec == Init /\ [][Next]_vars

\* every pending await completes: no call waits forever for the store, a timer,
\* the remote client (its requests time out) or its own children
FairSpec == Spec /\ WF_vars(Next)

\* one call of the client, of either operation, against a provider that may
\* answer each request in any way
ClientInit ==
    /\ rateLimit \in {rl \in RateLimits : rl.maxRequests = maxRequests}
    /\ admitted = AdmittedBefore(rateLimit)
    /\ now = 0
    /\ clients \in [{1} -> {IdleCall("getPaperById", [paperId |-> "A"])}
                           \cup {IdleCall("searchPapers", p) : p \in SearchParamsSet}]
    /\ NoBuild
    /\ NoWriters
    /\ NoSides

ClientNext ==
    \/ \E k \in DOMAIN clients : Invoke(k)
    \/ \E k \in DOMAIN clients : Wake(k)
    \/ \E k \in DOMAIN clients : Answer(k, Responses)
    \/ \E k \in DOMAIN clients : Retry(k)
    \/ Tick

ClientSpec == ClientInit /\ [][ClientNext]_vars

\* concurrent calls of getPaperById, as the sibling branches of a build make them
LimiterInit ==
    /\ rateLimit \in RateLimits
    /\ admitted = AdmittedBefore(rateLimit)
    /\ now = 0
    /\ clients = [k \in 1..MaxCallersBound |-> IdleCall("getPaperById", [paperId |-> "A"])]
    /\ NoBuild
    /\ NoWriters
    /\ NoSides

LimiterNext ==
    \/ \E k \in DOMAIN clients : Invoke(k)
    \/ \E k \in DOMAIN clients : Wake(k)
    \/ \E k \in DOMAIN clients : Answer(k, SteadyResponses)
    \/ Tick

LimiterSpec == LimiterInit /\ [][LimiterNext]_vars

\* timers fire and requests settle
FairLimiterSpec == LimiterSpec /\ WF_vars(LimiterNext)

\* savePaper calls, each with its own version of a paper, in any interleaving
StoreInit ==
    /\ table \in InitialTables
    /\ applied = <<>>
    /\ writers \in {[w \in 1..MaxWritersBound |-> IdleWriter(PaperVersion(ids[w], w))] :
                       ids \in [1..MaxWritersBound -> {"A", "B"}]}
    /\ NoBuild
    /\ NoClients
    /\ NoSides

StoreNext ==
    \/ \E w \in DOMAIN writers : SavePaperCall(w)
    \/ \E w \in DOMAIN writers : ExecuteUpsert(w)

StoreSpec == StoreInit /\ [][StoreNext]_vars

\* one call of savePapers, with any list of papers, on a table nobody else writes
BatchInit ==
    /\ table \in InitialTables
    /\ writers = <<>>
    /\ applied = <<>>
    /\ batch \in {IdleBatch(papers, table) : papers \in PaperLists}
    /\ NoBuild
    /\ NoClients
    /\ NoProgress
    /\ NoPath
    /\ NoBulk

BatchNext ==
    \/ SavePapersCall
    \/ Begin
    \/ ExecuteQuery
    \/ Commit
    \/ Rollback

BatchSpec == BatchInit /\ [][BatchNext]_vars

\* one request of the tree with progress
ProgressNext ==
    \/ BuildTreeWithProgress
    \/ \E c \in Positions : StoreLookup(c)
    \/ \E c \in Positions : Delay(c)
    \/ \E c \in Positions : ApiGet(c)
    \/ \E c \in Positions : SavePaper(c)
    \/ \E c \in Positions : Join(c)
    \/ RespondWithProgress

ProgressSpec == Init /\ [][ProgressNext]_vars

\* the path operations, called in any order from the empty path
PathInit ==
    /\ NoPath
    /\ NoBuild
    /\ NoClients
    /\ NoWriters
    /\ NoProgress
    /\ NoBatch
    /\ NoBulk

PathNext ==
    \/ \E item \in PathItems : addToPath(item)
    \/ \E index \in PathIndexes : removeFromPath(index)
    \/ clearPath
    \/ \E index \in PathIndexes : navigateToPathIndex(index)

PathSpec == PathInit /\ [][PathNext]_vars

\* one bulkImport request with any value of queries
BulkInit ==
    /\ bulk \in {IdleBulk(queries) : queries \in QueriesValues}
    /\ NoBuild
    /\ NoClients
    /\ NoWriters
    /\ NoProgress
    /\ NoBatch
    /\ NoPath

BulkNext ==
    \/ BulkImportCall
    \/ BulkSearched
    \/ BulkSaved
    \/ BulkDelayed

BulkSpec == BulkInit /\ [][BulkNext]_vars

(***************************************************************************)
(* Notions the properties are stated with.                                 *)
(***************************************************************************)
RECURSIVE NodesOf(_)
NodesOf(node) ==
    {node} \cup UNION {NodesOf(node.references[i]) : i \in 1..Len(node.references)}

\* the trees returned so far, by any call
Returned == {calls[c].result : c \in {k \in Positions : calls[k].result # Null}}

ReturnedNodes == UNION {NodesOf(t) : t \in Returned}

Succeeded == response # Null /\ response.status = 200

RootTree == calls[<<>>].result

Last(seq) == seq[Len(seq)]

\* the call was stopped by the visited check, the depth check having passed
PrunedAsVisited(c) ==
    /\ calls[c].depth < options.maxDepth
    /\ calls[c].paperId \in calls[c].visitedIn

(***************************************************************************)
(* C1  Depth bound: no node of a returned tree has depth >= maxDepth, the  *)
(* largest depth of the flattened tree is at most maxDepth - 1, and a call *)
(* made at depth >= maxDepth returns no node without touching the store or *)
(* the remote client.                                                      *)
(***************************************************************************)
DepthBound ==
    /\ \A n \in ReturnedNodes : n.depth < options.maxDepth
    /\ Succeeded =>
          \A i \in 1..Len(response.data.flattened) :
              response.data.flattened[i].depth <= options.maxDepth - 1
    /\ \A c \in Positions :
          calls[c].depth >= options.maxDepth =>
              /\ calls[c].pc = "done"
              /\ calls[c].result = Null
              /\ calls[c].log = <<>>

\* a tree that reaches depth maxDepth - 1 >= 1, below which a call was refused
DepthBoundWitness ==
    /\ Succeeded
    /\ options.maxDepth >= 2
    /\ \E i \in 1..Len(response.data.flattened) :
          response.data.flattened[i].depth = options.maxDepth - 1
    /\ \E c \in Positions : calls[c].depth = options.maxDepth /\ calls[c].result = Null

(***************************************************************************)
(* C2  Branch bound: every node of a returned tree has at most             *)
(* maxReferencesPerLevel children, however long the stored list is.        *)
(***************************************************************************)
BranchBound ==
    \A n \in ReturnedNodes : Len(n.references) <= options.maxReferencesPerLevel

\* a node with exactly maxReferencesPerLevel >= 2 children whose stored list is longer
BranchBoundWitness ==
    /\ options.maxReferencesPerLevel >= 2
    /\ \E n \in ReturnedNodes :
          /\ Len(n.references) = options.maxReferencesPerLevel
          /\ Len(ListOf(n.paper, IF n.depth = 0 THEN "citations" ELSE "references"))
                > options.maxReferencesPerLevel

(***************************************************************************)
(* C3  Cycle safety: in a returned tree no paper id occurs twice on a path *)
(* from the root to a node, and a call for an id that is in the visited    *)
(* set it is given returns no node.                                        *)
(***************************************************************************)
RECURSIVE NoRepeatOnPath(_, _)
NoRepeatOnPath(node, seen) ==
    /\ node.paper.id \notin seen
    /\ \A i \in 1..Len(node.references) :
          NoRepeatOnPath(node.references[i], seen \cup {node.paper.id})

Termination == <>(response # Null /\ \A c \in Positions : calls[c].pc = "done")

\* an answered request whose build met a cycle of the graph
TerminationWitness ==
    /\ response # Null
    /\ <<>> \in Positions
    /\ calls[<<>>].pc = "done"
    /\ \E c \in Positions : PrunedAsVisited(c)

(***************************************************************************)
(* C5  Root not found: when the store has no row for the root id and the   *)
(* remote fetch for it fails, the root call returns no node and buildTree  *)
(* answers with the not-found response, never with a tree and never with   *)
(* the generic failure response.                                           *)
(***************************************************************************)
RootUnresolved ==
    /\ <<>> \in Positions
    /\ calls[<<>>].log = <<"store.miss", "api.fail">>

RootNotFound ==
    RootUnresolved =>
        /\ calls[<<>>].pc = "done"
        /\ calls[<<>>].outcome = "fulfilled"
        /\ calls[<<>>].result = Null
        /\ Positions = {<<>>}
        /\ response \in {Null, NotFoundResponse}

RootNotFoundWitness ==
    /\ RootUnresolved
    /\ response # Null
    /\ response.status = 404
    /\ response.message = "unable to build citation tree for this paper"

(***************************************************************************)
(* C6  Branch failure isolation: a candidate below the root whose          *)
(* resolution fails (store miss and remote failure, or an exception in the *)
(* branch) is left out of its parent's references; the parent, the         *)
(* siblings that resolved and the whole tree are still returned and no     *)
(* rejection reaches the caller of the root call.                          *)
(***************************************************************************)
BranchFailed(c) ==
    /\ c # <<>>
    /\ calls[c].log # <<>>
    /\ \/ Last(calls[c].log) = "store.err"
       \/ calls[c].mode = "fetch" /\ Last(calls[c].log) \in {"api.fail", "save.fail"}

ResolvedSiblings(c) == {k \in Children(calls, Parent(c)) : calls[k].result # Null}

BranchFailureIsolation ==
    /\ \A c \in Positions : calls[c].outcome # "rejected"
    /\ response # Null => response.status # 500
    /\ \A c \in Positions :
          BranchFailed(c) =>
              /\ calls[c].pc = "done"
              /\ calls[c].result = Null
              /\ calls[Parent(c)].pc = "done" =>
                    LET node == calls[Parent(c)].result
                    IN /\ node # Null
                       /\ Len(node.references) = Cardinality(ResolvedSiblings(c))
                       /\ \A k \in ResolvedSiblings(c) :
                             node.references[Cardinality({j \in ResolvedSiblings(c) :
                                                             Last(j) <= Last(k)})]
                                = calls[k].result

\* a delivered tree one of whose branches failed next to one that resolved
BranchFailureIsolationWitness ==
    /\ Succeeded
    /\ \E c \in Positions :
          /\ BranchFailed(c)
          /\ ResolvedSiblings(c) # {}
          /\ Last(calls[c].log) = "store.err"
    /\ \E c \in Positions : BranchFailed(c) /\ Last(calls[c].log) = "api.fail"

(***************************************************************************)
(* C7  Stale fallback: when the store holds a row that lacks its link      *)
(* lists and the remote fetch, or the upsert that follows it, fails, the   *)
(* node is built from the stored row and the failing step leaves the store *)
(* unchanged.                                                              *)
(***************************************************************************)
RefreshFailed(frame) ==
    /\ frame.mode = "refresh"
    /\ Last(frame.log) \in {"api.fail", "save.fail"}

StaleFallback ==
    /\ [](\A c \in Positions :
            (calls[c].log # <<>> /\ RefreshFailed(calls[c])) =>
                /\ calls[c].found # Null
                /\ calls[c].pc \in {"join", "done"}
                /\ calls[c].paper = calls[c].found
                /\ calls[c].pc = "done" =>
                      /\ calls[c].result # Null
                      /\ calls[c].result.paper = calls[c].found)
    /\ [][\A c \in Positions :
            (/\ calls[c].pc \in {"api", "save"}
             /\ calls'[c].pc \notin {"api", "save"}
             /\ RefreshFailed(calls'[c])) => store' = store]_vars

\* both failures happened in one build and each node carries the stored row
StaleFallbackWitness ==
    /\ \E c \in Positions :
          /\ calls[c].pc = "done"
          /\ calls[c].mode = "refresh"
          /\ Last(calls[c].log) = "api.fail"
          /\ calls[c].result # Null
          /\ calls[c].result.paper = store[calls[c].paperId]
    /\ \E c \in Positions :
          /\ calls[c].pc = "done"
          /\ calls[c].mode = "refresh"
          /\ Last(calls[c].log) = "save.fail"
          /\ calls[c].result # Null
          /\ calls[c].result.paper = calls[c].found

(***************************************************************************)
(* C8  Store-then-remote resolution.  The store is looked up first.  A row *)
(* that is present with its link lists causes no remote getById call; an   *)
(* absent row, or a row that lacks its link lists, causes exactly one, and *)
(* when the fetch and the upsert succeed the node is built from the saved  *)
(* record.  With the root stored without link lists and maxDepth = 1 the   *)
(* build makes exactly one remote fetch and leaves the fetched link lists  *)
(* in the store.                                                           *)
(***************************************************************************)
RemoteCalls(log) == Cardinality({i \in 1..Len(log) : log[i] \in {"api.ok", "api.fail"}})

Resolved(frame) ==
    /\ frame.pc \in {"join", "done"}
    /\ frame.log # <<>>
    /\ frame.log[1] \in {"store.hit", "store.miss"}

TotalRemoteCalls ==
    LET RECURSIVE Sum(_)
        Sum(S) == IF S = {} THEN 0
                  ELSE LET c == CHOOSE x \in S : TRUE
                       IN RemoteCalls(calls[c].log) + Sum(S \ {c})
    IN Sum(Positions)

\* what "the row lacks its link lists" is read as: the row has neither list (a
\* row saved from a search result), the row is without one of the two lists,
\* or the row has no references whatever its citations
Lacks(reading, row) ==
    CASE reading = "both" ->
            ListOf(row, "references") = <<>> /\ ListOf(row, "citations") = <<>>
      [] reading = "either" ->
            ListOf(row, "references") = <<>> \/ ListOf(row, "citations") = <<>>
      [] reading = "references" ->
            ListOf(row, "references") = <<>>

StoreThenRemote(reading) ==
    /\ \A c \in Positions :
          /\ calls[c].log # <<>> => calls[c].log[1] \in {"store.hit", "store.miss", "store.err"}
          /\ RemoteCalls(calls[c].log) <= 1
          /\ Resolved(calls[c]) =>
                LET frame == calls[c]
                    absent == frame.found = Null
                IN /\ absent <=> frame.log[1] = "store.miss"
                   /\ (~absent /\ ~Lacks(reading, frame.found)) => RemoteCalls(frame.log) = 0
                   /\ (absent \/ Lacks(reading, frame.found)) => RemoteCalls(frame.log) = 1
                   /\ Last(frame.log) = "save.ok" =>
                         /\ frame.apiPaper = transformPaper(RawPapers[frame.paperId])
                         /\ frame.paper = SavePaperRow(frame.apiPaper)
                         /\ frame.pc = "done" => frame.result.paper = frame.paper
    /\ (/\ options.maxDepth = 1
        /\ response # Null
        /\ <<>> \in Positions
        /\ calls[<<>>].found # Null
        /\ Lacks(reading, calls[<<>>].found)) =>
          /\ TotalRemoteCalls = 1
          /\ Last(calls[<<>>].log) = "save.ok" =>
                /\ store[request].meta_data.references
                      = TransformRefs(RawPapers[request].references)
                /\ store[request].meta_data.citations
                      = TransformRefs(RawPapers[request].citations)

OneLevelRefreshWitness ==
    /\ options.maxDepth = 1
    /\ Succeeded
    /\ calls[<<>>].found # Null
    /\ Lacks("both", calls[<<>>].found)
    /\ calls[<<>>].log = <<"store.hit", "api.ok", "save.ok">>
    /\ TotalRemoteCalls = 1
    /\ store[request].meta_data.citations # <<>>

(***************************************************************************)
(* C9  Edge-direction asymmetry: the children of the depth-0 node come     *)
(* from the root's citations list and the children of a node at depth > 0  *)
(* from that node's references list: the paper id of every child is an     *)
(* entry of the corresponding list of its parent's resolved record.        *)
(***************************************************************************)
ChildIds(node) == [i \in 1..Len(node.references) |-> node.references[i].paper.id]

Candidates(paper, depth) ==
    IF depth = 0 THEN ListOf(paper, "citations") ELSE ListOf(paper, "references")

\* the ids of the non-blank strings among the first n entries of list, in order
RECURSIVE PrefixIds(_, _)
PrefixIds(list, n) ==
    IF n = 0 \/ list = <<>>
    THEN <<>>
    ELSE LET e == Head(list)
             rest == PrefixIds(Tail(list), n - 1)
         IN IF e.type = "string" /\ e.value \notin {"", " "} THEN <<e.value>> \o rest ELSE rest

\* ids without the positions whose branch returned no node
RECURSIVE Surviving(_, _, _)
Surviving(c, ids, i) ==
    IF i > Len(ids)
    THEN <<>>
    ELSE (IF calls[Append(c, i)].result # Null THEN <<ids[i]>> ELSE <<>>)
            \o Surviving(c, ids, i + 1)

ChildOrder ==
    \A c \in Positions :
        (calls[c].pc = "join" \/ calls[c].result # Null) =>
            LET ids == PrefixIds(Candidates(calls[c].paper, calls[c].depth),
                                 options.maxReferencesPerLevel)
            IN /\ Children(calls, c) = {Append(c, i) : i \in 1..Len(ids)}
               /\ \A i \in 1..Len(ids) : calls[Append(c, i)].paperId = ids[i]
               /\ calls[c].pc = "done" =>
                     ChildIds(calls[c].result) = Surviving(c, ids, 1)

\* a node with two children of which the second completed first, built from a
\* candidate list with a dropped entry in its prefix and an entry cut off
ChildOrderWitness ==
    \E c \in Positions :
        /\ calls[c].pc = "done"
        /\ calls[c].result # Null
        /\ Len(calls[c].result.references) >= 2
        /\ \E i, j \in 1..Len(calls[c].order) :
              /\ i < j
              /\ calls[c].order[i] > calls[c].order[j]
              /\ calls[Append(c, calls[c].order[i])].result # Null
              /\ calls[Append(c, calls[c].order[j])].result # Null
        /\ Len(Candidates(calls[c].paper, calls[c].depth)) > options.maxReferencesPerLevel
        /\ Len(calls[c].validIds) < options.maxReferencesPerLevel

(***************************************************************************)
(* The nodes of a tree by their position: <<>> is the root and             *)
(* Append(p, i) the i-th entry of the references of the node at p.         *)
(***************************************************************************)
RECURSIVE NodePaths(_)
NodePaths(node) ==
    {<<>>} \cup UNION {{<<i>> \o p : p \in NodePaths(node.references[i])} :
                         i \in 1..Len(node.references)}

RECURSIVE NodeAt(_, _)
NodeAt(node, p) == IF p = <<>> THEN node ELSE NodeAt(node.references[p[1]], Tail(p))

\* p is an ancestor of q, or p lies in the subtree of an earlier sibling than q does
Before(p, q) ==
    \/ Len(p) < Len(q) /\ SubSeq(q, 1, Len(p)) = p
    \/ \E i \in 1..Min(Len(p), Len(q)) :
          /\ SubSeq(p, 1, i - 1) = SubSeq(q, 1, i - 1)
          /\ p[i] < q[i]

Rank(tree, p) == 1 + Cardinality({q \in NodePaths(tree) : Before(q, p)})

HasParentId(entry) == "parentId" \in DOMAIN entry

\* the entries before the i-th whose paperId is the parentId of the i-th
EarlierParents(flat, i) == {j \in 1..(i - 1) : flat[j].paperId = flat[i].parentId}

(***************************************************************************)
(* C11  Flatten is a pre-order projection: flattenTree emits one entry per *)
(* node of the tree; the entry of the root is the first and has no         *)
(* parentId; the entry of any other node carries the paper id of the       *)
(* node's parent; the entry of a node comes before the entries of its      *)
(* descendants, and the entries of siblings come in the order of the       *)
(* parent's references.                                                    *)
(***************************************************************************)
FlattenPreOrder ==
    \A t \in Returned :
        LET flat == flattenTree(t)
            paths == NodePaths(t)
        IN /\ Len(flat) = Cardinality(paths)
           /\ ~HasParentId(flat[1])
           /\ \A p \in paths :
                 LET e == flat[Rank(t, p)]
                     n == NodeAt(t, p)
                 IN /\ e.paperId = n.paper.id
                    /\ e.title = n.paper.title
                    /\ e.depth = n.depth
                    /\ e.citationCount = n.paper.citation_count
                    /\ p # <<>> =>
                          /\ HasParentId(e)
                          /\ e.parentId = NodeAt(t, Parent(p)).paper.id
           /\ \A p, q \in paths :
                 /\ (Len(p) < Len(q) /\ SubSeq(q, 1, Len(p)) = p) => Rank(t, p) < Rank(t, q)
                 /\ (p # <<>> /\ q # <<>> /\ Parent(p) = Parent(q) /\ Last(p) < Last(q)) =>
                        Rank(t, p) < Rank(t, q)

\* the answer to a request whose tree has two branches below the root, both with a child
FlattenPreOrderWitness ==
    /\ Succeeded
    /\ Len(RootTree.references) = 2
    /\ \A i \in 1..2 : Len(RootTree.references[i].references) = 1
    /\ Len(response.data.flattened) = 5
    /\ response.data.flattened[4].parentId = RootTree.paper.id

(***************************************************************************)
(* C12  Flatten parent pointers.  As stated: in the flattening of a        *)
(* returned tree the parentId of an entry is absent or is the paperId of   *)
(* exactly one earlier entry.  As amended: it is absent or is the paperId  *)
(* of at least one earlier entry; a paper that occurs in two branches      *)
(* gives two entries with the same paperId.                                *)
(***************************************************************************)
ParentPointersAsStated ==
    \A t \in Returned :
        LET flat == flattenTree(t)
        IN \A i \in 1..Len(flat) :
              HasParentId(flat[i]) => Cardinality(EarlierParents(flat, i)) = 1

ParentPointers ==
    \A t \in Returned :
        LET flat == flattenTree(t)
        IN \A i \in 1..Len(flat) :
              /\ HasParentId(flat[i]) => Cardinality(EarlierParents(flat, i)) >= 1
              /\ ~HasParentId(flat[i]) => i = 1

\* an entry whose parent's paper has two earlier entries, one in each branch
ParentPointersWitness ==
    /\ Succeeded
    /\ \E i \in 1..Len(response.data.flattened) :
          /\ HasParentId(response.data.flattened[i])
          /\ Cardinality(EarlierParents(response.data.flattened, i)) = 2

(***************************************************************************)
(* C13  Statistics correctness: for the tree of a response,                *)
(* statistics.totalNodes is the length of the flattening; the summed       *)
(* branching is the sum of the lengths of the references of all nodes,     *)
(* which is totalNodes - 1, and averageReferences is its quotient by       *)
(* totalNodes; maxDepth is the largest depth of a node; totalCitations is  *)
(* the sum of citation_count over the nodes.                               *)
(***************************************************************************)
RECURSIVE SumOverPaths(_, _, _)
SumOverPaths(tree, paths, field) ==
    IF paths = {} THEN 0
    ELSE LET p == CHOOSE q \in paths : TRUE
             n == NodeAt(tree, p)
         IN (IF field = "references" THEN Len(n.references) ELSE n.paper.citation_count)
            + SumOverPaths(tree, paths \ {p}, field)

StatisticsCorrect ==
    Succeeded =>
        LET tree == response.data.tree
            stats == response.data.statistics
            paths == NodePaths(tree)
        IN /\ stats.totalNodes = Len(response.data.flattened)
           /\ stats.totalNodes = Cardinality(paths)
           /\ stats.averageReferences.num = SumOverPaths(tree, paths, "references")
           /\ stats.averageReferences.num = stats.totalNodes - 1
           /\ stats.averageReferences.den = stats.totalNodes
           /\ \E p \in paths : NodeAt(tree, p).depth = stats.maxDepth
           /\ \A p \in paths : NodeAt(tree, p).depth <= stats.maxDepth
           /\ stats.totalCitations = SumOverPaths(tree, paths, "citation_count")

\* the statistics of a tree of three levels with two branches
StatisticsCorrectWitness ==
    /\ Succeeded
    /\ response.data.statistics.totalNodes = 5
    /\ response.data.statistics.maxDepth = 2
    /\ response.data.statistics.averageReferences = [num |-> 4, den |-> 5]
    /\ response.data.statistics.totalCitations > 0

(***************************************************************************)
(* C14  Subtree metric: with includeMetrics every node of a returned tree  *)
(* carries totalNodes, one more than the sum of the totalNodes of its      *)
(* children; a resolved paper with an empty candidate list gives a node    *)
(* with no children and totalNodes 1; the totalNodes of the tree of a      *)
(* response is statistics.totalNodes.  Without includeMetrics no node      *)
(* carries totalNodes.                                                     *)
(***************************************************************************)
RECURSIVE SumTotalNodes(_, _)
SumTotalNodes(kids, i) ==
    IF i = 0 THEN 0 ELSE SumTotalNodes(kids, i - 1) + kids[i].totalNodes

\* the call resolved its paper, whose candidate list is empty, and has settled
EmptyCandidates(c) ==
    /\ calls[c].pc = "done"
    /\ calls[c].paper # Null
    /\ Candidates(calls[c].paper, calls[c].depth) = <<>>

SubtreeMetric ==
    /\ \A n \in ReturnedNodes :
          IF options.includeMetrics
          THEN /\ "totalNodes" \in DOMAIN n
               /\ n.totalNodes = 1 + SumTotalNodes(n.references, Len(n.references))
          ELSE "totalNodes" \notin DOMAIN n
    /\ \A c \in Positions :
          EmptyCandidates(c) =>
              /\ calls[c].outcome = "fulfilled"
              /\ calls[c].result # Null
              /\ calls[c].result.references = <<>>
              /\ options.includeMetrics => calls[c].result.totalNodes = 1
    /\ (Succeeded /\ options.includeMetrics) =>
          response.data.tree.totalNodes = response.data.statistics.totalNodes

\* a tree of three levels with metrics whose deepest node had no candidates
SubtreeMetricWitness ==
    /\ Succeeded
    /\ options.includeMetrics
    /\ RootTree.totalNodes = 3
    /\ \E c \in Positions : Len(c) = 2 /\ EmptyCandidates(c) /\ calls[c].result # Null

(***************************************************************************)
(* Notions the properties of the remote client are stated with.            *)
(***************************************************************************)
Callers == DOMAIN clients

\* a failure that the retry policy calls transient
Transient(failure) ==
    \/ failure.status = 429
    \/ failure.status >= 500
    \/ failure.code \in {"ECONNRESET", "ETIMEDOUT", "ECONNABORTED"}

LastTry(frame) == frame.tries[Len(frame.tries)]

(***************************************************************************)
(* C15  Retry attempt policy: a call wrapped by withRetry sends at most 3  *)
(* requests; a request is followed by another one only when it failed with *)
(* a transient failure (429, a status >= 500, or one of the codes          *)
(* ECONNRESET, ETIMEDOUT, ECONNABORTED); a failure that is not transient   *)
(* ends the call as failed, the first success ends it as success, and the  *)
(* third failure is thrown to the caller: getPaperById then fails.         *)
(***************************************************************************)
RetryAttempts ==
    \A k \in Callers :
        LET frame == clients[k]
            n == Len(frame.tries)
        IN /\ n <= 3
           /\ \A e \in Range(frame.ended) : e.requests \in 1..3
           /\ \A j \in 1..(n - 1) :
                 /\ frame.tries[j].response \in Failures
                 /\ Transient(frame.tries[j].response)
           /\ frame.pc = "request" => LastTry(frame).response = undefined
           /\ frame.pc = "backoff" =>
                 /\ n < 3
                 /\ LastTry(frame).response \in Failures
                 /\ Transient(LastTry(frame).response)
           /\ frame.pc = "done" =>
                 /\ n >= 1
                 /\ IF LastTry(frame).response = OkResponse
                    THEN frame.outcome = "fulfilled"
                    ELSE /\ frame.outcome = "rejected"
                         /\ ~Transient(LastTry(frame).response) \/ n = 3
                         /\ frame.op = "getPaperById" =>
                               frame.error = "Failed to fetch paper from Semantic Scholar API"

\* a getPaperById call that failed after a 500, a timeout and a 429
RetryAttemptsWitness ==
    \E k \in Callers :
        /\ clients[k].op = "getPaperById"
        /\ clients[k].pc = "done"
        /\ clients[k].outcome = "rejected"
        /\ Len(clients[k].tries) = 3
        /\ clients[k].tries[1].response.status = 500
        /\ clients[k].tries[2].response.code = "ETIMEDOUT"
        /\ clients[k].tries[3].response.status = 429

(***************************************************************************)
(* C16  Retry delay: between a failed request and the request that follows *)
(* it withRetry waits the provider's retry-after duration when the failed  *)
(* response carries one, and otherwise min(4000, 1000 * 2^i) ms, i being   *)
(* the index of the failed attempt.  A retry-after header that is an       *)
(* HTTP-date is read either as carrying no duration (the computed backoff  *)
(* is due) or as the duration up to that date; HttpDateAt is the time the  *)
(* date denotes.                                                           *)
(***************************************************************************)
HttpDateAt == 60 * 1000

WaitDue(reading, failure, i, t) ==
    CASE failure.retryAfter = "2" -> 2000
      [] failure.retryAfter = HttpDate /\ reading = "until" -> Max(0, HttpDateAt - t)
      [] OTHER -> Min(4000, 1000 * (2 ^ i))

RetryDelayRead(reading) ==
    \A k \in Callers :
        \A j \in 2..Len(clients[k].tries) :
            clients[k].tries[j].at - clients[k].tries[j - 1].answeredAt
                >= WaitDue(reading, clients[k].tries[j - 1].response, j - 2,
                           clients[k].tries[j - 1].answeredAt)

RetryDelayAsStated == RetryDelayRead("computed") \/ RetryDelayRead("until")

(***************************************************************************)
(* C17  Rate-limit window bound under concurrency: the calls that          *)
(* rateLimitCheck has let through since the window was opened (since       *)
(* lastReset) are never more than maxRequests, and the counter counts them *)
(* all, whatever the interleaving of the callers.                          *)
(***************************************************************************)
AdmittedInWindow ==
    Cardinality({n \in 1..Len(admitted) : admitted[n] >= rateLimit.lastReset})

WindowBound ==
    /\ AdmittedInWindow <= rateLimit.maxRequests
    /\ rateLimit.requests = AdmittedInWindow

(***************************************************************************)
(* C18  Throttle, not error: a call that finds the window exhausted is     *)
(* not failed by the limiter: until it is admitted it is pending and has   *)
(* sent nothing; it is admitted no earlier than the end of the window it   *)
(* found, and, timers firing, it is admitted in the end.                   *)
(***************************************************************************)
Suspended(k) == clients[k].pc = "limited"

Passed(k) == clients[k].admittedAt >= 0

ThrottleSafe ==
    \A k \in Callers :
        /\ ~Passed(k) => clients[k].outcome = "pending" /\ clients[k].sent = <<>>
        /\ (clients[k].limitedAt >= 0 /\ Passed(k)) =>
              /\ clients[k].admittedAt >= clients[k].windowStart + rateLimit.wdMs
              /\ clients[k].admittedAt >= clients[k].limitedAt
        /\ Suspended(k) => clients[k].outcome = "pending"

Throttle ==
    /\ []ThrottleSafe
    /\ \A k \in 1..MaxCallersBound : Suspended(k) ~> Passed(k)

\* all callers found the window exhausted together and all were admitted later
ThrottleWitness ==
    /\ \A k \in Callers : clients[k].limitedAt = 0 /\ Passed(k)
    /\ Cardinality(Callers) >= 2

(***************************************************************************)
(* C19  Search fallback: searchPapers calls the bulk endpoint exactly when *)
(* the withRetry call of the primary search has thrown, as one withRetry   *)
(* call with the parameters of the primary search; when the primary search *)
(* succeeds no bulk request is sent; when the bulk call throws as well,    *)
(* searchPapers fails with its error and tries nothing else.               *)
(***************************************************************************)
SentTo(frame, endpoint) == {n \in 1..Len(frame.sent) : frame.sent[n].endpoint = endpoint}

PrimaryThrew(frame) == Len(frame.ended) >= 1 /\ frame.ended[1].result = "thrown"

SearchFallback ==
    \A k \in Callers :
        LET frame == clients[k]
        IN /\ frame.op = "getPaperById" => SentTo(frame, "bulk") = {}
           /\ frame.op = "searchPapers" =>
                 /\ Len(frame.ended) <= 2
                 /\ \A n \in 1..Len(frame.ended) :
                       frame.ended[n].endpoint = IF n = 1 THEN "search" ELSE "bulk"
                 /\ PrimaryThrew(frame) <=> SentTo(frame, "bulk") # {}
                 /\ PrimaryThrew(frame) =>
                       /\ frame.endpoint = "bulk"
                       /\ Cardinality(SentTo(frame, "bulk")) = Len(frame.tries)
                 /\ Cardinality(SentTo(frame, "bulk")) <= 3
                 /\ \A n \in 1..Len(frame.sent) :
                       frame.sent[n].params = frame.sent[1].params
                 /\ (Len(frame.ended) >= 1 /\ frame.ended[1].result = "returned") =>
                       /\ frame.pc = "done"
                       /\ frame.outcome = "fulfilled"
                 /\ (Len(frame.ended) = 2 /\ frame.ended[2].result = "returned") =>
                       /\ frame.pc = "done"
                       /\ frame.outcome = "fulfilled"
                 /\ (Len(frame.ended) = 2 /\ frame.ended[2].result = "thrown") =>
                       /\ frame.pc = "done"
                       /\ frame.outcome = "rejected"
                       /\ frame.error = "Failed to fetch papers from Semantic Scholar API"
                 /\ frame.outcome = "rejected" => Len(frame.ended) = 2

\* a search whose primary call failed at once and whose bulk call failed after retries
SearchFallbackWitness ==
    \E k \in Callers :
        /\ clients[k].op = "searchPapers"
        /\ clients[k].outcome = "rejected"
        /\ clients[k].ended[1].requests = 1
        /\ clients[k].ended[2].requests = 3
        /\ clients[k].params.limit = 0
        /\ clients[k].sent[4].params.limit = 10

(***************************************************************************)
(* C20  Upsert is last-write-wins by id: whatever the order in which the   *)
(* statements of the savePaper calls are executed, the table holds at most *)
(* one row per id; the row of an id that has been saved is, in every       *)
(* column, the row of the last savePaper call executed for that id, and    *)
(* savePaper returned that row to that call; a row that no call has saved  *)
(* is as it was; no row is ever removed.                                   *)
(***************************************************************************)
\* the writers executed for id, in the order of execution
AppliedFor(id) == SelectSeq(applied, LAMBDA w : writers[w].paper.id = id)

\* the stamp of the statement that writer w executed
StampOf(w) == CHOOSE n \in 1..Len(applied) : applied[n] = w

RowIds(rows) == {rows[n].id : n \in 1..Len(rows)}

LastWriteWinsState ==
    /\ \A m, n \in 1..Len(table) : table[m].id = table[n].id => m = n
    /\ \A n \in 1..Len(table) :
          LET row == table[n]
              saved == AppliedFor(row.id)
          IN IF saved = <<>>
             THEN <<row>> \in InitialTables
             ELSE LET w == Last(saved)
                  IN /\ row.title = writers[w].paper.title
                     /\ row.abstract = writers[w].paper.abstract
                     /\ row.citation_count = writers[w].paper.citationCount
                     /\ row.api_source = writers[w].paper.apiSource
                     /\ row.meta_data.references = writers[w].paper.references
                     /\ row.meta_data.citations = writers[w].paper.citations
                     /\ row.created_at = StampOf(w)
                     /\ writers[w].returned = row
    /\ \A w \in Range(applied) : writers[w].paper.id \in RowIds(table)

LastWriteWins ==
    /\ []LastWriteWinsState
    /\ [][RowIds(table) \subseteq RowIds(table')]_vars

\* three writes of the paper A over a row that the table had, all executed,
\* the statement of the first writer being the last to be executed
LastWriteWinsWitness ==
    /\ Len(table) = 1
    /\ Len(applied) >= 3
    /\ \A w \in Range(applied) : writers[w].paper.id = "A"
    /\ Last(applied) = 1

(***************************************************************************)
(* savePapers.                                                             *)
(***************************************************************************)
BatchStatements == [i \in 1..Len(batch.papers) |-> SavePapersRow(batch.papers[i])]

\* C21: the upserts of savePapers are all-or-nothing.  Until COMMIT has been
\* executed the table is what it was when savePapers was called; the table
\* changes only in the step that commits, which puts the effect of every
\* statement of the batch in the table at once and lets savePapers return one
\* row for each paper; after a failed statement (a query, BEGIN or COMMIT) the
\* transaction is rolled back, the table is unchanged and savePapers throws.
BatchAtomicState ==
    batch # Null =>
        /\ batch.outcome # "fulfilled" => table = batch.before
        /\ batch.outcome = "fulfilled" =>
              /\ table = UpsertAll(batch.before, BatchStatements, BatchStamp)
              /\ Len(batch.returned) = Len(batch.papers)
              /\ \A i \in 1..Len(batch.papers) :
                    /\ batch.returned[i].id = batch.papers[i].id
                    /\ \E r \in 1..Len(table) : table[r].id = batch.papers[i].id

BatchAtomicStep ==
    /\ table' # table => batch.pc = "commit" /\ batch'.outcome = "fulfilled"
    /\ batch # Null /\ batch.pc = "rollback" =>
          batch'.outcome = "rejected" /\ table' = batch.before

BatchAtomic == []BatchAtomicState /\ [][BatchAtomicStep]_vars

\* the second of two statements failed after the first had inserted a row
BatchAtomicWitness ==
    /\ batch # Null
    /\ batch.outcome = "rejected"
    /\ Len(batch.papers) = 2
    /\ Len(batch.resQueries) = 1
    /\ \A r \in 1..Len(batch.before) : batch.before[r].id # batch.papers[1].id

\* savePaper(p1); ...; savePaper(pn), each call one statement of its own
RECURSIVE SavePaperEach(_, _, _)
SavePaperEach(rows, papers, stamp) ==
    IF papers = <<>>
    THEN rows
    ELSE SavePaperEach(UpsertRows(rows, SavePaperRow(Head(papers)), stamp),
                       Tail(papers), stamp + 1)

\* the fields of a stored paper that the two variants are compared on
StoredFields(row) ==
    [id |-> row.id, title |-> row.title, abstract |-> row.abstract,
     citation_count |-> row.citation_count, api_source |-> row.api_source,
     meta_data |-> row.meta_data]

DistinctIds(papers) ==
    \A i, j \in 1..Len(papers) : papers[i].id = papers[j].id => i = j

\* C28: savePapers and savePaper agree.  When savePapers has succeeded on a
\* list of papers with distinct ids, the table holds for every id the fields
\* that savePaper(p1); ...; savePaper(pn) would have left there.
BatchAgreesWithSingle ==
    (batch # Null /\ batch.outcome = "fulfilled" /\ DistinctIds(batch.papers)) =>
        LET single == SavePaperEach(batch.before, batch.papers, BatchStamp)
        IN /\ Len(table) = Len(single)
           /\ \A r \in 1..Len(table) : StoredFields(table[r]) = StoredFields(single[r])

(***************************************************************************)
(* buildCitationTreeWithProgress.                                          *)
(***************************************************************************)
\* the calls that visited a paper: those that passed the two early returns
VisitingCalls == {c \in DOMAIN calls : calls[c].paperId \in calls[c].visited}

\* the papers visited, under the two readings of "node visited": the nodes of
\* the tree the request is answered with, or the calls that visited a paper
VisitedCount(reading) ==
    IF reading = "nodes"
    THEN Len(flattenTree(RootTree))
    ELSE Cardinality(VisitingCalls)

VisitedIds(reading) ==
    IF reading = "nodes"
    THEN {flattenTree(RootTree)[i].paperId : i \in 1..Len(flattenTree(RootTree))}
    ELSE {calls[c].paperId : c \in VisitingCalls}

ProgressRead(reading) ==
    (response # Null /\ response.status = 200) =>
        /\ Len(progress) = VisitedCount(reading)
        /\ \A i \in 1..Len(progress) :
              /\ progress[i].processed = i
              /\ progress[i].currentPaper \in VisitedIds(reading)
              /\ progress[i].total = ProgressTotal

\* C22: progress reporting.  When a tree has been built with progress, the
\* callback has been invoked once for every node visited, with processed
\* counting the invocations, currentPaper a visited paper and total the
\* estimate, the sum of maxReferencesPerLevel^d for d in 0..maxDepth.
ProgressPerNode == ProgressRead("nodes") \/ ProgressRead("calls")

(***************************************************************************)
(* The error taxonomy of buildTree.                                        *)
(***************************************************************************)
\* the store lookup of the root threw: the paper store is unavailable
RootLookupThrew ==
    /\ <<>> \in Positions
    /\ calls[<<>>].log = <<"store.err">>

\* C23: the error taxonomy is kept distinct at the entry point.  A build whose
\* root store lookup threw is answered with the generic failure response, and
\* the not-found response is sent only for a root that could not be resolved
\* (store miss and fetch failure).
ErrorTaxonomy ==
    response # Null =>
        /\ RootLookupThrew => response = FailureResponse
        /\ response = NotFoundResponse => RootUnresolved

(***************************************************************************)
(* The visited set.                                                        *)
(***************************************************************************)
\* the ids of the calls on the path from the root to the caller of c
AncestorIds(c) == {calls[SubSeq(c, 1, n)].paperId : n \in 0..(Len(c) - 1)}

\* the tree nodes whose paper is id, by their paths
NodesWithId(tree, id) == {p \in NodePaths(tree) : NodeAt(tree, p).paper.id = id}

\* C24: the visited set is scoped to the path.  The set a call receives holds
\* exactly the ids of its ancestors, whatever its siblings and their subtrees
\* have visited; the set of a call is what it received plus its own id and
\* never holds an id of a descendant; a candidate is pruned as visited exactly
\* when its id is the id of one of its ancestors.
PathScopedVisited ==
    \A c \in Positions :
        /\ calls[c].visitedIn = AncestorIds(c)
        /\ calls[c].visited \in {calls[c].visitedIn, calls[c].visitedIn \cup {calls[c].paperId}}
        /\ calls[c].depth < options.maxDepth =>
              ((calls[c].pc = "done" /\ calls[c].log = <<>>) <=>
                   calls[c].paperId \in AncestorIds(c))

\* the same paper is a node of two sibling subtrees of the returned tree, in
\* which a candidate was pruned because an ancestor has its id
PathScopedVisitedWitness ==
    /\ Succeeded
    /\ \E id \in PaperIds :
          \E p, q \in NodesWithId(RootTree, id) :
              /\ p # q
              /\ ~(Len(p) <= Len(q) /\ SubSeq(q, 1, Len(p)) = p)
              /\ ~(Len(q) <= Len(p) /\ SubSeq(p, 1, Len(q)) = q)
    /\ \E c \in Positions : PrunedAsVisited(c)

(***************************************************************************)
(* The delay between remote requests.                                      *)
(***************************************************************************)
RemoteEvents == {"api.ok", "api.fail"}

\* the call at c is about to make its remote call, or has made it as event i
RemoteCallAt(c, i) ==
    \/ i = Len(calls[c].log) + 1 /\ calls[c].pc = "api"
    \/ i \in 1..Len(calls[c].log) /\ calls[c].log[i] \in RemoteEvents

\* C25: the delay between requests.  In every call at depth > 0 the wait of
\* RATE_LIMIT_DELAY is the step immediately before the remote call, each
\* remote call having a wait of its own; the call at depth 0 makes its remote
\* call without a wait; a call that resolves its paper from the store alone
\* waits for nothing.
InterRequestDelay ==
    \A c \in Positions :
        LET log == calls[c].log
            waits == {i \in 1..Len(log) : log[i] = "delay"}
        IN /\ \A i \in 1..(Len(log) + 1) :
                 RemoteCallAt(c, i) =>
                     IF calls[c].depth > 0
                     THEN i > 1 /\ log[i - 1] = "delay"
                     ELSE waits = {}
           /\ \A i \in waits : calls[c].depth > 0 /\ (calls[c].pc = "delay" \/ RemoteCallAt(c, i + 1))
           /\ RemoteCalls(log) = 0 /\ calls[c].pc \in {"join", "done"} => waits = {}

\* one build in which the root was fetched without a wait, one call below it
\* was fetched after its wait and another was resolved from the store
InterRequestDelayWitness ==
    /\ Succeeded
    /\ calls[<<>>].log = <<"store.hit", "api.ok", "save.ok">>
    /\ \E c, d \in Positions \ {<<>>} :
          /\ Len(calls[c].log) >= 3
          /\ SubSeq(calls[c].log, 1, 3) = <<"store.hit", "delay", "api.ok">>
          /\ calls[d].log = <<"store.hit">>
          /\ calls[d].result # Null

(***************************************************************************)
(* The requests the limiter counts.                                        *)
(***************************************************************************)
\* the admissions the counter stood for when the calls began
CountedBefore == Len(admitted) - Cardinality({k \in Callers : clients[k].admittedAt >= 0})

\* the requests sent to the provider in the window the counter is counting
AttemptsInWindow ==
    (IF rateLimit.lastReset = 0 THEN CountedBefore ELSE 0)
    + Cardinality({kn \in UNION {{<<k, n>> : n \in 1..Len(clients[k].tries)} : k \in Callers} :
                      clients[kn[1]].tries[kn[2]].at >= rateLimit.lastReset})

\* C26: every HTTP request sent to the provider, retries and the bulk search
\* included, is admitted and counted by the limiter: the requests sent in a
\* window never outnumber the counter of that window.
AttemptsWithinCounter == AttemptsInWindow <= rateLimit.requests

\* C27: the counter stays within its bounds.  In every state, for every
\* interleaving of concurrent callers, those resuming from the wait included,
\* 0 <= requests <= maxRequests, and the remaining count that
\* getRateLimitStatus reports is maxRequests - requests, within 0..maxRequests.
CounterInvariant ==
    /\ 0 <= rateLimit.requests
    /\ rateLimit.requests <= rateLimit.maxRequests
    /\ getRateLimitStatus(rateLimit).remaining = rateLimit.maxRequests - rateLimit.requests
    /\ getRateLimitStatus(rateLimit).remaining \in 0..rateLimit.maxRequests

\* two callers were suspended in the same exhausted window and both have
\* resumed: the counter is back within its bounds, at 1
CounterInvariantWitness ==
    /\ rateLimit.maxRequests > 1
    /\ \E j, k \in Callers :
          /\ j # k
          /\ clients[j].limitedAt >= 0 /\ clients[j].admittedAt >= 0
          /\ clients[k].limitedAt >= 0 /\ clients[k].admittedAt >= 0
          /\ clients[j].windowStart = clients[k].windowStart
    /\ rateLimit.requests = 1

(***************************************************************************)
(* The exploration path.                                                   *)
(***************************************************************************)
\* the first n items of a path
FirstItems(items, n) == [i \in 1..Min(n, Len(items)) |-> items[i]]

\* the indexes of the items of a path that carry the paper
IndexesOf(items, paperId) == {i \in 1..Len(items) : items[i].paperId = paperId}

\* what the last call has made of the path it found
PathCallEffect ==
    LET found == lastCall.found
        arg == lastCall.arg
    IN CASE lastCall.op = "addToPath" ->
              IF IndexesOf(found, arg.paperId) = {}
              THEN /\ Len(path) = Len(found) + 1
                   /\ FirstItems(path, Len(found)) = found
                   /\ Last(path) = arg
              ELSE \E i \in IndexesOf(found, arg.paperId) :
                      /\ Len(path) = i
                      /\ FirstItems(path, i - 1) = FirstItems(found, i - 1)
                      /\ \A f \in DOMAIN arg : path[i][f] = arg[f]
                      /\ \A f \in DOMAIN found[i] \ DOMAIN arg : path[i][f] = found[i][f]
         [] lastCall.op = "navigateToPathIndex" -> path = FirstItems(found, arg + 1)
         [] lastCall.op = "removeFromPath" ->
              /\ Len(path) <= Len(found)
              /\ path = FirstItems(found, Len(path))
         [] lastCall.op = "clearPath" -> path = <<>>

\* C29: the breadcrumb path.  From the empty path, after any sequence of the
\* four operations no two items have the same paperId; addToPath of a paper
\* that is at index i cuts the path after that item and refreshes the item,
\* addToPath of a new paper appends exactly the item, navigateToPathIndex(i)
\* keeps exactly the first i + 1 items as they were, and no operation reorders
\* items or brings in one that was not there.
BreadcrumbPath ==
    /\ \A i, j \in 1..Len(path) : path[i].paperId = path[j].paperId => i = j
    /\ lastCall # Null => PathCallEffect

\* addToPath found its paper in the middle of the path: the items after it are
\* gone and the item has the new title, with the authors it had
BreadcrumbPathWitness ==
    /\ lastCall # Null
    /\ lastCall.op = "addToPath"
    /\ Len(lastCall.found) = 3
    /\ Len(path) = 2
    /\ path[2].title = "t3"
    /\ lastCall.found[2].title = "t1"
    /\ path[2].authors = "a1"

(***************************************************************************)
(* bulkImport.                                                             *)
(***************************************************************************)
\* C30: one response per bulkImport request.  The handler never sends more
\* than one response and has sent exactly one when it ends; when queries is
\* missing, not an array or empty, that response is 400 'queries are
\* required', no remote search is made and nothing is written to the store.
SingleResponse ==
    bulk # Null =>
        /\ Len(bulk.sent) <= 1
        /\ bulk.pc = "done" => Len(bulk.sent) = 1
        /\ (QueriesRejected(bulk.queries) /\ bulk.pc # "idle") =>
              /\ bulk.sent = <<BulkBadRequest>>
              /\ bulk.searched = <<>>
              /\ table = <<>>

====
